---- MODULE Spec2Model ----
(***************************************************************************)
(* A state-machine model of pihole-sync: the sync cycle of                 *)
(* src/sync/context.rs and src/sync/config_sync.rs, the snapshot upload of *)
(* src/sync/teleporter.rs, the change tracker of src/sync/util.rs and the  *)
(* session handling of src/pihole/client.rs.                               *)
(*                                                                         *)
(* The remote Pi-hole instances are the environment: the outcome of every  *)
(* client call and the data a fetch returns are chosen with \E.            *)
(* Option<T> is modelled as a set: {} is None and {x} is Some(x).          *)
(* A content hash is modelled by the hashed content itself, that is by a   *)
(* collision-free hash; hash_value names the place.                        *)
(***************************************************************************)
EXTENDS Integers, Sequences, FiniteSets, TLC

(***************************************************************************)
(* Bounds.                                                                 *)
(***************************************************************************)
\* Number of distinct contents each resource of the main instance can take.
NumVersions == 2
Versions == 1..NumVersions
\* Number of distinct session ids a Pi-hole hands out.
NumSessionIds == 3
SessionIds == 1..NumSessionIds

Some(x) == {x}
Get(o) == CHOOSE x \in o : TRUE

(***************************************************************************)
(* Configuration: src/config.rs.                                           *)
(***************************************************************************)
\* ConfigSyncOptions: mode and filter_keys; enabled = FALSE is sync_config: None.
NoConfigSync == [enabled |-> FALSE, mode |-> "Include", filter_keys |-> {}]
ConfigSync(m, keys) == [enabled |-> TRUE, mode |-> m, filter_keys |-> keys]

\* InstanceConfig of a secondary. The port is the secondary's position in the
\* list: two secondaries are always distinct (host, port) identities, also
\* when they share the host.
TeleporterInstance(h, grav) ==
    [host |-> h, sync_mode |-> "Teleporter", update_gravity |-> grav,
     sync_config |-> NoConfigSync, sync_groups |-> FALSE, sync_lists |-> FALSE]
ApiInstance(h, grav, sc, sg, sl) ==
    [host |-> h, sync_mode |-> "Api", update_gravity |-> grav,
     sync_config |-> sc, sync_groups |-> sg, sync_lists |-> sl]

\* The configurations explored: [trigger_mode, secondary].
Configs ==
    { [trigger_mode |-> "Interval",
       secondary |-> << TeleporterInstance("h1", TRUE), TeleporterInstance("h2", FALSE) >>],
      [trigger_mode |-> "WatchConfigFile",
       secondary |-> << TeleporterInstance("h1", FALSE),
                        ApiInstance("h2", TRUE, ConfigSync("Include", {"dns"}), FALSE, FALSE) >>],
      [trigger_mode |-> "WatchConfigApi",
       secondary |-> << ApiInstance("h1", FALSE, ConfigSync("Include", {"dns"}), FALSE, FALSE),
                        ApiInstance("h1", FALSE, ConfigSync("Exclude", {"dns"}), FALSE, FALSE) >>],
      [trigger_mode |-> "Interval",
       secondary |-> << ApiInstance("h1", FALSE, NoConfigSync, TRUE, FALSE),
                        ApiInstance("h1", TRUE, NoConfigSync, TRUE, TRUE) >>],
      [trigger_mode |-> "WatchConfigApi",
       secondary |-> << ApiInstance("h1", TRUE, ConfigSync("Exclude", {"dhcp"}), FALSE, FALSE),
                        ApiInstance("h2", FALSE, NoConfigSync, TRUE, FALSE) >>],
      [trigger_mode |-> "Interval",
       secondary |-> << ApiInstance("h1", FALSE, NoConfigSync, FALSE, TRUE) >>] }

Hosts == {"h1", "h2"}
Categories == {"config", "groups", "lists"}

VARIABLES
    \* SyncContext (src/sync/context.rs:40-64), fixed after from_config
    trigger_mode,
    secondary_piholes,
    \* SyncState (src/sync/context.rs:29-33)
    last_main_config_hash,
    last_teleporter_hash,
    last_teleporter_applied,
    \* HashTracker.inner (src/sync/util.rs:28-30)
    hash_tracker,
    \* PiHoleClient.session_token of each endpoint, 0 = main: is a token cached
    session_token,
    \* the callback that is running ("none" between callbacks), its position
    \* in the trigger callback and in perform_sync
    trigger,
    pc,
    idx,
    \* last_main_config_hash of watch_config_api_with_fetch (src/sync/triggers.rs:158)
    poll_baseline,
    \* locals of perform_sync and of sync_config_api
    main_config,
    main_groups,
    main_groups_hash,
    main_lists,
    main_lists_hash,
    backup_hash,
    should_upload,
    all_ok,
    \* observation of the run, not program state
    calls,          \* the client calls made by the last step, in order
    hist,           \* per secondary and category: what its last apply step did
    visited,        \* the (secondary, category) apply steps reached in this cycle
    uploads,        \* per secondary: upload_backup invocations in this cycle
    upload_failed,  \* secondaries whose upload_backup failed in this cycle
    prev_snapshot,  \* the snapshot round of the previous cycle
    logged_out,     \* endpoints on which logout was invoked in this cycle
    ready_failed,   \* endpoints whose post-trigger readiness wait timed out
    cycle_ran,      \* did the last trigger callback run perform_sync
    result,         \* what the last callback / perform_sync returned
    startup,        \* handle_initial_sync until the first trigger: "pending", "run",
                    \* "disabled"; "past" from the first trigger on
    update_running, \* what is_pihole_update_running returned to the last file callback
    main_fetches,   \* the fetches from main of the running perform_sync, in order
    \* one PiHoleClient seen request by request (src/pihole/client.rs)
    client_token,   \* PiHoleClient.session_token: {} or {sid}
    client_pc,      \* "idle", or the request the running call makes next
    client_op,      \* the last call: "ensure_authenticated" or "logout"
    client_had_token, \* was a token cached when that call began
    client_check,   \* what is_logged_in returned in that call
    client_auths,   \* how often that call ran authenticate
    client_auth_failed, \* did an authenticate of that call fail
    client_result,  \* what that call returned
    server_sessions \* the session ids the client's Pi-hole holds valid

VARIABLES
    \* one call of PiHoleClient::wait_for_ready (src/pihole/client.rs:347-386)
    wait_pc,        \* "idle", "attempt", "sleep" or "done"
    wait_timeout,   \* its argument, in milliseconds
    wait_attempt,   \* its local attempt
    wait_elapsed,   \* milliseconds since its local start
    wait_last,      \* what the last ensure_authenticated of the call returned
    wait_result     \* what the call returned

VARIABLES
    \* the group and list steps of sync_config_api for one secondary, pass
    \* after pass, with the collections of both instances in full
    rec_pc,          \* "idle", "groups" or "lists"
    rec_sync_groups, \* api_options.sync_groups of the secondary
    rec_main_groups, \* GET /groups of the main instance
    rec_main_lists,  \* GET /lists of the main instance
    rec_sec_groups,  \* the groups the secondary holds
    rec_sec_lists,   \* the lists the secondary holds
    rec_group_calls, \* the group writes the pass issued, in order
    rec_list_calls,  \* the list writes the pass issued, in order
    rec_failed,      \* the steps of the pass in which a write failed
    rec_since,       \* main since the last complete pass: "start", "synced", "toggled"
    rec_toggled,     \* the group whose enabled flag changed on main since then
    rec_recorded     \* the categories whose tracker record is the hash of main's data

VARIABLES
    \* one of the trigger loops of src/sync/triggers.rs with a callback that
    \* does nothing but succeed or fail
    trig_fn,           \* which loop runs: "interval", "file", "api" ("none": none)
    trig_pc,           \* where it is
    trig_result,       \* "running", or what it returned
    iv_max_iterations, \* run_interval_mode: max_iterations, {} or {n}
    iv_iterations,     \* run_interval_mode: iterations
    iv_ticks,          \* invocations of on_tick so far
    iv_sleeps,         \* completed sleep(sync_interval) so far
    fw_rx,             \* process_file_watch_events: the events queued in rx
    fw_served,         \* events for the target the last debounce window took in
    api_last_hash,     \* watch_config_api_with_fetch: last_main_config_hash
    api_fetched,       \* what fetch_config returned at the last poll: {} or {document}
    api_arg            \* the document the last on_change was invoked with

VARIABLES
    \* ConfigFilter (src/pihole/config_filter.rs) applied to a JSON tree
    flt_json,          \* the tree filter_json is first called with
    flt_paths,         \* ConfigFilter.paths
    flt_result         \* per mode: what filter_json returned, applied again to its result

vars == << trigger_mode, secondary_piholes, last_main_config_hash,
           last_teleporter_hash, last_teleporter_applied, hash_tracker,
           session_token, trigger, pc, idx, poll_baseline, main_config, main_groups, main_groups_hash,
           main_lists, main_lists_hash, backup_hash, should_upload, all_ok,
           calls, hist, visited, uploads, upload_failed, prev_snapshot,
           logged_out, ready_failed, cycle_ran, result, startup, update_running,
           main_fetches,
           client_token, client_pc, client_op, client_had_token, client_check,
           client_auths, client_auth_failed, client_result, server_sessions,
           wait_pc, wait_timeout, wait_attempt, wait_elapsed, wait_last, wait_result,
           rec_pc, rec_sync_groups, rec_main_groups, rec_main_lists, rec_sec_groups,
           rec_sec_lists, rec_group_calls, rec_list_calls, rec_failed, rec_since, rec_toggled, rec_recorded,
           trig_fn, trig_pc, trig_result, iv_max_iterations, iv_iterations, iv_ticks,
           iv_sleeps, fw_rx, fw_served, api_last_hash, api_fetched, api_arg,
           flt_json, flt_paths, flt_result >>

waitVars == << wait_pc, wait_timeout, wait_attempt, wait_elapsed, wait_last, wait_result >>
reconcileVars == << rec_pc, rec_sync_groups, rec_main_groups, rec_main_lists, rec_sec_groups,
                    rec_sec_lists, rec_group_calls, rec_list_calls, rec_failed, rec_since,
                    rec_toggled, rec_recorded >>
triggerLoopVars == << trig_fn, trig_pc, trig_result, iv_max_iterations, iv_iterations,
                      iv_ticks, iv_sleeps, fw_rx, fw_served, api_last_hash,
                      api_fetched, api_arg >>
\* the variables of the parts of the program that are checked on their own
filterVars == << flt_json, flt_paths, flt_result >>
unitVars == << waitVars, reconcileVars, triggerLoopVars, filterVars >>

clientVars == << client_token, client_pc, client_op, client_had_token, client_check,
                 client_auths, client_auth_failed, client_result, server_sessions >>

Secondaries == 1..Len(secondary_piholes)
Endpoints == 0..Len(secondary_piholes)
IsTeleporter(s) == secondary_piholes[s].sync_mode = "Teleporter"
IsApi(s) == secondary_piholes[s].sync_mode = "Api"

(***************************************************************************)
(* Strings are ordered as Rust orders them (byte-wise); StringOrder lists  *)
(* the strings of the model in that order.                                 *)
(***************************************************************************)
StringOrder ==
    << "Default", "Family", "Kids", "a.example", "allow", "b.example", "block",
       "id:0", "id:1", "id:2", "id:3", "id:4", "id:5", "id:6", "id:7", "id:8", "id:9" >>
Rank(str) == CHOOSE i \in 1..Len(StringOrder) : StringOrder[i] = str

\* Indices of S in ascending key order, equal keys in index order (a stable sort).
RECURSIVE SortedIdx(_, _)
SortedIdx(keys, S) ==
    IF S = {} THEN << >>
    ELSE LET m == CHOOSE i \in S : \A j \in S :
                      keys[i] < keys[j] \/ (keys[i] = keys[j] /\ i <= j)
         IN << m >> \o SortedIdx(keys, S \ {m})
SortByKey(seq, keys) ==
    LET order == SortedIdx(keys, 1..Len(seq))
    IN [k \in 1..Len(seq) |-> seq[order[k]]]

\* Vec::dedup on a sorted vector: drops repeated neighbours.
RECURSIVE Dedup(_)
Dedup(seq) ==
    IF Len(seq) <= 1 THEN seq
    ELSE IF seq[1] = seq[2] THEN Dedup(Tail(seq))
    ELSE << seq[1] >> \o Dedup(Tail(seq))

\* The index of the last entry with key k (HashMap::collect keeps the last).
LastIdx(keys, k) ==
    CHOOSE i \in 1..Len(keys) : keys[i] = k /\ \A j \in (i+1)..Len(keys) : keys[j] # k
HasKey(keys, k) == \E i \in 1..Len(keys) : keys[i] = k

(***************************************************************************)
(* Change tracking: src/sync/util.rs.                                      *)
(***************************************************************************)
hash_value(value) == value
hash_config(config) == hash_value(config)
teleporter_backup_hash(bytes) == hash_value(bytes)

\* format!("config:{}", host), format!("groups:{}", host), format!("lists:{}", host)
HashKey(category, s) == << category, secondary_piholes[s].host >>

has_changed(tracker, key, current_hash) ==
    tracker[key] = {} \/ Get(tracker[key]) # current_hash

update(tracker, key, hash) == [tracker EXCEPT ![key] = Some(hash)]

(***************************************************************************)
(* Config filter, src/pihole/config_filter.rs, on documents that are one   *)
(* object of scalars: a path is a top-level key.                           *)
(***************************************************************************)
should_include_path(filter, path) ==
    IF filter.mode = "OptIn" THEN path \in filter.paths
    ELSE path \notin filter.paths

filter_object(filter, obj) ==
    [k \in {p \in DOMAIN obj : should_include_path(filter, p)} |-> obj[k]]

filter_json(filter, json) ==
    IF filter.paths = {}
    THEN (IF filter.mode = "OptIn" THEN [k \in {} |-> 0] ELSE json)
    ELSE filter_object(filter, json)

\* ConfigFilter::new with the mode of src/sync/config_sync.rs:148-153
ConfigFilterOf(config_sync) ==
    [paths |-> config_sync.filter_keys,
     mode |-> IF config_sync.mode = "Include" THEN "OptIn" ELSE "OptOut"]

(***************************************************************************)
(* Groups: src/sync/groups.rs.                                             *)
(***************************************************************************)
Group(n, c, e, i) == [name |-> n, comment |-> c, enabled |-> e, id |-> Some(i)]
NameOf(g) == g.name
Names(groups) == [i \in 1..Len(groups) |-> NameOf(groups[i])]
Ids(groups) == [i \in 1..Len(groups) |-> Get(groups[i].id)]

normalize_groups(groups) ==
    SortByKey([i \in 1..Len(groups) |->
                  [name |-> groups[i].name, comment |-> groups[i].comment,
                   enabled |-> groups[i].enabled]],
              [i \in 1..Len(groups) |-> Rank(groups[i].name)])

\* sync_groups that rewrites every group the secondary has
GroupWriteUnconditional(group, secondary_groups) ==
    IF HasKey(Names(secondary_groups), group.name) THEN "update_group" ELSE "add_group"

\* sync_groups that compares the comment only
GroupWriteCommentOnly(group, secondary_groups) ==
    IF HasKey(Names(secondary_groups), group.name)
    THEN LET existing == secondary_groups[LastIdx(Names(secondary_groups), group.name)]
         IN IF existing.comment # group.comment THEN "update_group" ELSE "none"
    ELSE "add_group"

\* The write sync_groups makes for one main group: "none" when it makes none.
GroupWrite(group, secondary_groups) ==
    IF HasKey(Names(secondary_groups), group.name)
    THEN LET existing == secondary_groups[LastIdx(Names(secondary_groups), group.name)]
         IN IF existing.comment # group.comment \/ existing.enabled # group.enabled
            THEN "update_group" ELSE "none"
    ELSE "add_group"

\* a mirroring sync_groups, which also rewrites what only the secondary has
SyncGroupsMirror(groups, secondary_groups) ==
    [i \in 1..Len(secondary_groups) |->
        [op |-> "update_group", target |-> secondary_groups[i].name]]

\* The writes sync_groups makes when none fails, in order: [op, target].
sync_groups(groups, secondary_groups) ==
    LET all == [i \in 1..Len(groups) |->
                   [op |-> GroupWrite(groups[i], secondary_groups),
                    target |-> groups[i].name]]
    IN SelectSeq(all, LAMBDA w : w.op # "none")

\* build_group_lookup: id -> name
build_group_lookup(groups) ==
    LET withId == SelectSeq(groups, LAMBDA g : g.id # {})
        IdOf(g) == Get(g.id)
    IN [i \in {IdOf(withId[k]) : k \in 1..Len(withId)} |->
           withId[LastIdx(Ids(withId), i)].name]

(***************************************************************************)
(* Lists: src/sync/lists.rs.                                               *)
(***************************************************************************)
List(a, t, c, e, g) ==
    [address |-> a, list_type |-> t, comment |-> c, enabled |-> e, groups |-> g]

IdName(gid) == "id:" \o ToString(gid)
GroupNameOf(lookup, gid) == IF gid \in DOMAIN lookup THEN lookup[gid] ELSE IdName(gid)
RawGroups(list) == IF list.groups = << >> THEN << 0 >> ELSE list.groups
SortNat(seq) == SortByKey(seq, seq)

normalize_lists(lists, group_lookup) ==
    LET norm(list) ==
            LET names == [i \in 1..Len(RawGroups(list)) |->
                             GroupNameOf(group_lookup, RawGroups(list)[i])]
            IN [address |-> list.address, list_type |-> list.list_type,
                comment |-> list.comment, enabled |-> list.enabled,
                groups |-> SortByKey(names, [i \in 1..Len(names) |-> Rank(names[i])])]
    IN SortByKey([i \in 1..Len(lists) |-> norm(lists[i])],
                 [i \in 1..Len(lists) |->
                     Rank(lists[i].address) * (Len(StringOrder) + 1) + Rank(lists[i].list_type)])

\* secondary_group_lookup of sync_lists: name -> id
SecondaryGroupLookup(secondary_groups) ==
    LET withId == SelectSeq(secondary_groups, LAMBDA g : g.id # {})
    IN [n \in {withId[k].name : k \in 1..Len(withId)} |->
           Get(withId[LastIdx(Names(withId), n)].id)]

\* groups_for_list that writes the ids of the main instance
GroupsForListVerbatim(list, main_group_lookup, secondary_group_lookup, sync_groups_enabled) ==
    Dedup(SortNat(RawGroups(list)))

\* groups_for_list that leaves out what it cannot resolve
GroupsForListDropMissing(list, main_group_lookup, secondary_group_lookup, sync_groups_enabled) ==
    LET raw_groups == RawGroups(list)
        resolvable == SelectSeq(raw_groups,
                                LAMBDA gid : GroupNameOf(main_group_lookup, gid)
                                                \in DOMAIN secondary_group_lookup)
    IN Dedup(SortNat([i \in 1..Len(resolvable) |->
                         secondary_group_lookup[GroupNameOf(main_group_lookup,
                                                            resolvable[i])]]))

groups_for_list(list, main_group_lookup, secondary_group_lookup, sync_groups_enabled) ==
    LET raw_groups == RawGroups(list)
        mapped == [i \in 1..Len(raw_groups) |->
                      LET name == GroupNameOf(main_group_lookup, raw_groups[i])
                      IN IF name \in DOMAIN secondary_group_lookup
                         THEN secondary_group_lookup[name]
                         ELSE 0]
    IN IF ~sync_groups_enabled /\ \E i \in 1..Len(raw_groups) : raw_groups[i] # 0
       THEN << 0 >>
       ELSE Dedup(SortNat(mapped))

lists_equal(target, existing) ==
    /\ target.comment = existing.comment
    /\ target.enabled = existing.enabled
    /\ SortNat(target.groups) = SortNat(RawGroups(existing))

ListKey(l) == << l.address, l.list_type >>
ListKeys(lists) == [i \in 1..Len(lists) |-> ListKey(lists[i])]

\* The writes sync_lists makes when none fails, in order: [op, target, list].
sync_lists(lists, main_group_lookup, secondary_groups, secondary_lists, sync_groups_enabled) ==
    LET lookup == SecondaryGroupLookup(secondary_groups)
        write(list) ==
            LET desired == [list EXCEPT !.groups =
                               groups_for_list(list, main_group_lookup, lookup,
                                               sync_groups_enabled)]
            IN [op |-> IF HasKey(ListKeys(secondary_lists), ListKey(list))
                       THEN (IF lists_equal(desired,
                                            secondary_lists[LastIdx(ListKeys(secondary_lists),
                                                                    ListKey(list))])
                             THEN "none" ELSE "update_list")
                       ELSE "add_list",
                target |-> ListKey(list),
                list |-> desired]
    IN SelectSeq([i \in 1..Len(lists) |-> write(lists[i])], LAMBDA w : w.op # "none")

(***************************************************************************)
(* The environment: what the remote instances can answer.                  *)
(***************************************************************************)
\* A client call fails in ensure_authenticated ("auth_err", no request is
\* sent), fails in the request or its decoding ("err"), or succeeds.
Outcomes == {"ok", "err", "auth_err"}
ReadyOutcomes == {"ok", "timeout"}
\* DELETE /auth: 410, 2xx or 401 ("gone"), another status, or no response.
LogoutResponses == {"gone", "error_status", "transport_err"}

Backups == Versions
MainConfigs == { [dns |-> v, dhcp |-> 1] : v \in Versions }
MainGroupChoices ==
    { << Group("Default", 0, TRUE, 0), Group("Family", v, TRUE, 7) >> : v \in Versions }
\* A secondary has the group or the list of the main instance under another
\* id and in its first version, or does not have it.
SecondaryGroupChoices ==
    { << Group("Default", 0, TRUE, 0) >>,
      << Group("Default", 0, TRUE, 0), Group("Family", 1, TRUE, 3) >> }
MainListChoices ==
    { << List("a.example", "block", v, TRUE, << 7 >>) >> : v \in Versions }
SecondaryListChoices ==
    { << >>, << List("a.example", "block", 1, TRUE, << 3 >>) >> }

\* A response that is never read (the call failed before it) is one fixed value.
Unread(S) == CHOOSE x \in S : TRUE

Call(e, op, res) == [ep |-> e, op |-> op, res |-> res]
WriteCall(e, w, res) == [ep |-> e, op |-> w.op, res |-> res, target |-> w.target]
WriteOps == {"patch_config", "add_group", "update_group", "add_list", "update_list"}

\* ensure_authenticated caches a token whenever it succeeds.
TokenAfter(tok, e, res) == IF res = "auth_err" THEN tok ELSE [tok EXCEPT ![e] = TRUE]

\* The first n writes of a plan succeed; the next one, if any, fails with res.
WriteCalls(e, plan, n, res) ==
    [i \in 1..(IF n < Len(plan) THEN n + 1 ELSE n) |->
        WriteCall(e, plan[i], IF i <= n THEN "ok" ELSE res)]

(***************************************************************************)
(* Control flow of perform_sync and sync_config_api.                       *)
(***************************************************************************)
Pos(p, i) == [pc |-> p, idx |-> i]

\* determine_sync_modes
sync_modes ==
    [teleporter |-> \E s \in Secondaries : IsTeleporter(s),
     api |-> \E s \in Secondaries : IsApi(s)]

needs_config_sync == \E s \in Secondaries : IsApi(s) /\ secondary_piholes[s].sync_config.enabled
needs_lists == \E s \in Secondaries : IsApi(s) /\ secondary_piholes[s].sync_lists
\* a union of needs in which lists do not ask for groups
GroupsOnlyIfAsked(groups_wanted, lists_wanted) == groups_wanted
\* if needs_lists { needs_groups = true }
GroupsNeeded(groups_wanted, lists_wanted) == groups_wanted \/ lists_wanted
needs_groups ==
    GroupsNeeded(\E s \in Secondaries : IsApi(s) /\ secondary_piholes[s].sync_groups, needs_lists)

\* The apply steps of one secondary, in the order of the loop body.
StepEnabled(s, k) ==
    /\ IsApi(s)
    /\ CASE k = 1 -> secondary_piholes[s].sync_config.enabled
         [] k = 2 -> secondary_piholes[s].sync_groups
         [] k = 3 -> secondary_piholes[s].sync_lists
StepPc(k) == << "sec_config", "sec_groups", "sec_lists" >>[k]
StepCategory(k) == << "config", "groups", "lists" >>[k]

\* The next apply step after step k of secondary s; the teardown after the last.
NextSecPos(s, k) ==
    LET later == { q \in Secondaries \X (1..3) :
                      StepEnabled(q[1], q[2]) /\ 3 * q[1] + q[2] > 3 * s + k }
    IN IF later = {} THEN Pos("logout", 0)
       ELSE LET q == CHOOSE q \in later :
                        \A r \in later : 3 * q[1] + q[2] <= 3 * r[1] + r[2]
            IN Pos(StepPc(q[2]), q[1])

\* A loop that gives up at the first failed apply step.
AfterApplyUntilFailure(s, k, failed) ==
    IF failed THEN Pos("logout", 0) ELSE NextSecPos(s, k)

\* Where sync_config_api goes after the apply step k of secondary s ended with
\* failed: errors are logged and the loop goes on.
AfterApply(s, k, failed) == NextSecPos(s, k)

AfterFetchLists == NextSecPos(0, 3)
AfterFetchGroups == IF needs_lists THEN Pos("fetch_lists", 0) ELSE AfterFetchLists
AfterFetchConfig == IF needs_groups THEN Pos("fetch_groups", 0) ELSE AfterFetchLists
\* After the snapshot round: the selective round, if any secondary needs it.
ApiEntry(provided) ==
    IF sync_modes.api /\ (needs_config_sync \/ needs_groups \/ needs_lists)
    THEN (IF needs_config_sync /\ provided = {} THEN Pos("fetch_config", 0)
          ELSE AfterFetchConfig)
    ELSE Pos("logout", 0)

\* A loop that ends at the first failed upload.
NextUploadUntilFailure(s, ok) ==
    LET later == { q \in Secondaries : IsTeleporter(q) /\ q > s }
    IN IF later = {} \/ ~ok THEN 0 ELSE CHOOSE q \in later : \A r \in later : q <= r

\* upload_teleporter_to_secondaries: the secondary uploaded to after s (0: none);
\* a failed upload does not end the loop.
NextUpload(s, ok) ==
    LET later == { q \in Secondaries : IsTeleporter(q) /\ q > s }
    IN IF later = {} THEN 0 ELSE CHOOSE q \in later : \A r \in later : q <= r

\* A comparison that uploads every downloaded snapshot.
ShouldUploadAlways(hash, previous_teleporter_hash, previous_teleporter_applied) == TRUE

\* A comparison of the hash alone, whatever became of the previous upload.
ShouldUploadOnNewHash(hash, previous_teleporter_hash, previous_teleporter_applied) ==
    Some(hash) # previous_teleporter_hash

\* perform_sync: should_upload
ShouldUpload(hash, previous_teleporter_hash, previous_teleporter_applied) ==
    Some(hash) # previous_teleporter_hash \/ ~previous_teleporter_applied

\* A teardown that ends at the first failed logout.
NextLogoutUntilFailure(e, ok) == IF e < Len(secondary_piholes) /\ ok THEN e + 1 ELSE -1

\* logout_all: the endpoint logged out after e (-1: none); a failed logout is
\* logged and the loop goes on.
NextLogout(e, ok) == IF e < Len(secondary_piholes) THEN e + 1 ELSE -1

NoHist == [hash |-> {}, outcome |-> "none"]
NoSnapshot == [hash |-> {}, failed |-> FALSE, applied |-> FALSE]

configVars == << trigger_mode, secondary_piholes >>
teleporterState == << last_teleporter_hash, last_teleporter_applied >>
payloadVars == << main_groups, main_groups_hash, main_lists, main_lists_hash >>
snapshotLocals == << backup_hash, should_upload, all_ok >>
cycleObs == << visited, uploads, upload_failed, logged_out >>
triggerObs == << ready_failed, cycle_ran, result >>
schedObs == << startup, update_running >>

\* SyncContext::from_config for the configuration c
Configured(c) ==
    /\ trigger_mode = c.trigger_mode
    /\ secondary_piholes = c.secondary
    /\ session_token = [e \in 0..Len(c.secondary) |-> FALSE]
    /\ hist = [s \in 1..Len(c.secondary) |-> [c2 \in Categories |-> NoHist]]
    /\ uploads = [s \in 1..Len(c.secondary) |-> 0]

\* what does not depend on the configuration
AtRest ==
    /\ last_main_config_hash = {}
    /\ last_teleporter_hash = {}
    /\ last_teleporter_applied = FALSE
    /\ hash_tracker = [k \in Categories \X Hosts |-> {}]
    /\ trigger = "none"
    /\ pc = "init"
    /\ idx = 0
    /\ poll_baseline = {}
    /\ main_config = {}
    /\ main_groups = << >>
    /\ main_groups_hash = {}
    /\ main_lists = << >>
    /\ main_lists_hash = {}
    /\ backup_hash = {}
    /\ should_upload = FALSE
    /\ all_ok = TRUE
    /\ calls = << >>
    /\ visited = {}
    /\ upload_failed = {}
    /\ prev_snapshot = NoSnapshot
    /\ logged_out = {}
    /\ ready_failed = {}
    /\ cycle_ran = FALSE
    /\ result = "none"
    /\ startup = "pending"
    /\ update_running = FALSE
    /\ main_fetches = << >>
    /\ client_token = {}
    /\ client_pc = "idle"
    /\ client_op = "none"
    /\ client_had_token = FALSE
    /\ client_check = "none"
    /\ client_auths = 0
    /\ client_auth_failed = FALSE
    /\ client_result = "none"
    /\ server_sessions = {}
    /\ wait_pc = "idle"
    /\ wait_timeout = 0
    /\ wait_attempt = 0
    /\ wait_elapsed = 0
    /\ wait_last = "none"
    /\ wait_result = "none"

\* no reconciliation under way, of empty collections
ReconcileAtRest ==
    /\ rec_pc = "idle"
    /\ rec_sync_groups = FALSE
    /\ rec_main_groups = << >>
    /\ rec_main_lists = << >>
    /\ rec_sec_groups = << >>
    /\ rec_sec_lists = << >>
    /\ rec_group_calls = << >>
    /\ rec_list_calls = << >>
    /\ rec_failed = {}
    /\ rec_since = "start"
    /\ rec_toggled = {}
    /\ rec_recorded = {}

\* no trigger loop on its own
TriggersAtRest ==
    /\ trig_fn = "none"
    /\ trig_pc = "none"
    /\ trig_result = "none"
    /\ iv_max_iterations = {}
    /\ iv_iterations = 0
    /\ iv_ticks = 0
    /\ iv_sleeps = 0
    /\ fw_rx = << >>
    /\ fw_served = 0
    /\ api_last_hash = {}
    /\ api_fetched = {}
    /\ api_arg = {}

\* no filter applied on its own
FilterAtRest ==
    /\ flt_json = << >>
    /\ flt_paths = {}
    /\ flt_result = << >>

Init ==
    /\ \E c \in Configs : Configured(c)
    /\ AtRest
    /\ ReconcileAtRest
    /\ TriggersAtRest
    /\ FilterAtRest

(***************************************************************************)
(* Start-up and triggers: src/sync/context.rs:109-277, src/sync/triggers.rs*)
(***************************************************************************)
\* perform_sync begins: the observation of the cycle starts afresh.
BeginCycle ==
    /\ visited' = {}
    /\ uploads' = [s \in Secondaries |-> 0]
    /\ upload_failed' = {}
    /\ logged_out' = {}
    /\ cycle_ran' = TRUE
    /\ result' = "running"
    /\ main_fetches' = << >>

\* The position perform_sync(provided) starts at.
CycleEntry(provided) ==
    IF sync_modes.teleporter THEN Pos("download", 0) ELSE ApiEntry(provided)

\* A callback returns to its scheduler: the locals of perform_sync are dropped.
DropLocals ==
    /\ main_config' = {}
    /\ main_groups' = << >>
    /\ main_groups_hash' = {}
    /\ main_lists' = << >>
    /\ main_lists_hash' = {}
    /\ backup_hash' = {}
    /\ should_upload' = FALSE
    /\ all_ok' = TRUE

\* an initial sync that runs whatever the flag says
InitialSyncAlways(disable_initial_sync, mode) == "initial"
\* handle_initial_sync: the callback that startup runs ("none": none)
handle_initial_sync(disable_initial_sync, mode) ==
    IF ~disable_initial_sync THEN "initial"
    ELSE IF mode = "WatchConfigApi" THEN "seed"
    ELSE "none"

\* a scheduler that does not wait for its callback
NotAwaited(at) == at \notin {"init", "seed", "returned"}
\* on_tick().await / on_change().await: the loop sleeps, receives or polls
\* again only when the callback has returned
Awaited(at) == at = "idle"

\* an upgrade check whose answer is not used
UpdateCheckIgnored(running) == "ready"
\* the file-watch callback after is_pihole_update_running: it returns, or it
\* waits for readiness
AfterUpdateCheck(running) == IF running THEN "idle" ELSE "ready"

\* handle_initial_sync, then the scheduler of the trigger mode starts.
InitialSync ==
    /\ pc = "init"
    /\ \E disable_initial_sync \in BOOLEAN :
          /\ startup' = IF disable_initial_sync THEN "disabled" ELSE "run"
          /\ trigger' = handle_initial_sync(disable_initial_sync, trigger_mode)
          /\ CASE trigger' = "initial" ->
                     /\ pc' = CycleEntry({}).pc
                     /\ idx' = CycleEntry({}).idx
                     /\ BeginCycle
                     /\ UNCHANGED ready_failed
               [] trigger' = "seed" ->
                     /\ pc' = "seed"
                     /\ UNCHANGED << idx, cycleObs, triggerObs, main_fetches >>
               [] OTHER ->
                     /\ pc' = "idle"
                     /\ UNCHANGED << idx, cycleObs, triggerObs, main_fetches >>
    /\ calls' = << >>
    /\ UNCHANGED << configVars, clientVars, unitVars, update_running, last_main_config_hash, teleporterState, hash_tracker,
                    session_token, poll_baseline, main_config, payloadVars,
                    snapshotLocals, hist, prev_snapshot >>

\* seed_baseline_hash: the main configuration is read once, then logout_all.
SeedBaseline ==
    /\ pc = "seed"
    /\ \E res \in Outcomes, config \in MainConfigs :
          /\ res # "ok" => config = Unread(MainConfigs)
          /\ calls' = << Call(0, "get_config", res) >>
          /\ session_token' = TokenAfter(session_token, 0, res)
          /\ last_main_config_hash' =
                IF res = "ok" THEN Some(hash_config(config)) ELSE last_main_config_hash
    /\ pc' = "logout"
    /\ idx' = 0
    /\ logged_out' = {}
    /\ UNCHANGED << configVars, clientVars, unitVars, schedObs, main_fetches, teleporterState, hash_tracker, trigger, poll_baseline,
                    main_config, payloadVars, snapshotLocals, hist, visited, uploads,
                    upload_failed, prev_snapshot, triggerObs >>

\* run_interval_mode: a tick of the interval timer runs perform_sync(None).
IntervalTick ==
    /\ Awaited(pc)
    /\ trigger_mode = "Interval"
    /\ trigger' = "interval"
    /\ startup' = "past"
    /\ pc' = CycleEntry({}).pc
    /\ idx' = CycleEntry({}).idx
    /\ BeginCycle
    /\ ready_failed' = {}
    /\ calls' = << >>
    /\ UNCHANGED << configVars, clientVars, unitVars, update_running, last_main_config_hash, teleporterState, hash_tracker,
                    session_token, poll_baseline, main_config, payloadVars,
                    snapshotLocals, hist, prev_snapshot >>

\* run_file_watch_loop: a debounced file event; skipped during a Pi-hole
\* upgrade, otherwise the readiness wait starts.
FileChange ==
    /\ Awaited(pc)
    /\ trigger_mode = "WatchConfigFile"
    /\ \E is_pihole_update_running \in BOOLEAN :
          /\ update_running' = is_pihole_update_running
          /\ pc' = AfterUpdateCheck(is_pihole_update_running)
          /\ IF pc' = "idle"
             THEN trigger' = "none" /\ result' = "Ok"
             ELSE trigger' = "file" /\ result' = "running"
    /\ startup' = "past"
    /\ idx' = 0
    /\ ready_failed' = {}
    /\ cycle_ran' = FALSE
    /\ calls' = << >>
    /\ UNCHANGED << configVars, clientVars, unitVars, main_fetches, last_main_config_hash, teleporterState, hash_tracker,
                    session_token, poll_baseline, main_config, payloadVars,
                    snapshotLocals, hist, cycleObs, prev_snapshot >>

\* watch_config_api_with_fetch: one poll of the main configuration; the
\* callback runs when its hash differs from the baseline.
ApiPoll ==
    /\ Awaited(pc)
    /\ trigger_mode = "WatchConfigApi"
    /\ \E res \in Outcomes, config \in MainConfigs :
          /\ res # "ok" => config = Unread(MainConfigs)
          /\ calls' = << Call(0, "get_config", res) >>
          /\ session_token' = TokenAfter(session_token, 0, res)
          /\ IF res = "ok" /\ poll_baseline # Some(hash_config(config))
             THEN /\ pc' = "ready"
                  /\ trigger' = "api"
                  /\ main_config' = Some(config)
                  /\ result' = "running"
                  /\ ready_failed' = {}
                  /\ cycle_ran' = FALSE
                  /\ startup' = "past"
             ELSE UNCHANGED << pc, trigger, main_config, triggerObs, startup >>
    /\ idx' = 0
    /\ UNCHANGED << configVars, clientVars, unitVars, update_running, main_fetches, last_main_config_hash, teleporterState, hash_tracker,
                    poll_baseline, payloadVars, snapshotLocals, hist, cycleObs,
                    prev_snapshot >>

\* wait_for_api_readiness, one endpoint at a time, the main instance first. A
\* timeout ends the callback with Ok(()): perform_sync is not called.
ReadyStep ==
    /\ pc = "ready"
    /\ \E res \in ReadyOutcomes :
          /\ calls' = << Call(idx, "wait_for_ready", res) >>
          /\ IF res = "ok"
             THEN /\ session_token' = [session_token EXCEPT ![idx] = TRUE]
                  /\ IF idx < Len(secondary_piholes)
                     THEN /\ pc' = "ready"
                          /\ idx' = idx + 1
                          /\ UNCHANGED << cycleObs, triggerObs, main_fetches >>
                     ELSE /\ pc' = CycleEntry(main_config).pc
                          /\ idx' = CycleEntry(main_config).idx
                          /\ BeginCycle
                          /\ UNCHANGED ready_failed
                  /\ UNCHANGED << trigger, poll_baseline, main_config >>
             ELSE /\ UNCHANGED << session_token, cycleObs, main_fetches >>
                  /\ ready_failed' = {idx}
                  /\ cycle_ran' = FALSE
                  /\ result' = "Ok"
                  /\ pc' = "idle"
                  /\ idx' = 0
                  /\ trigger' = "none"
                  /\ poll_baseline' = IF trigger = "api"
                                      THEN Some(hash_config(Get(main_config)))
                                      ELSE poll_baseline
                  /\ main_config' = {}
    /\ UNCHANGED << configVars, clientVars, unitVars, schedObs, last_main_config_hash, teleporterState, hash_tracker,
                    payloadVars, snapshotLocals, hist, prev_snapshot >>

(***************************************************************************)
(* The snapshot round: src/sync/context.rs:317-350, 423-440.               *)
(***************************************************************************)
FirstUpload == NextUpload(0, TRUE)

\* An upload that counts as done once the archive is accepted.
UploadBackupIgnoringGravity(res, gravity, gravity_res) == res = "ok"

\* teleporter::upload_backup: Ok only if the upload and, where requested, the gravity update succeeded.
upload_backup(res, gravity, gravity_res) == res = "ok" /\ (gravity => gravity_res = "ok")

\* download_backup from the main instance, the hash of the file, should_upload.
\* An unchanged, applied snapshot is recorded at once and nothing is uploaded.
TeleporterDownload ==
    /\ pc = "download"
    /\ \E res \in Outcomes, bytes \in Backups :
          /\ res # "ok" => bytes = Unread(Backups)
          /\ calls' = << Call(0, "download_backup", res) >>
          /\ session_token' = TokenAfter(session_token, 0, res)
          /\ IF res = "ok"
             THEN LET hash == teleporter_backup_hash(bytes)
                      upload == ShouldUpload(hash, last_teleporter_hash,
                                             last_teleporter_applied)
                  IN /\ backup_hash' = Some(hash)
                     /\ should_upload' = upload
                     /\ all_ok' = TRUE
                     /\ IF upload /\ FirstUpload # 0
                        THEN /\ pc' = "upload"
                             /\ idx' = FirstUpload
                             /\ UNCHANGED teleporterState
                        ELSE /\ pc' = ApiEntry(main_config).pc
                             /\ idx' = ApiEntry(main_config).idx
                             /\ last_teleporter_hash' = Some(hash)
                             /\ last_teleporter_applied' = TRUE
             ELSE /\ pc' = ApiEntry(main_config).pc
                  /\ idx' = ApiEntry(main_config).idx
                  /\ UNCHANGED << snapshotLocals, teleporterState >>
    /\ UNCHANGED << configVars, clientVars, unitVars, schedObs, main_fetches, last_main_config_hash, hash_tracker, trigger,
                    poll_baseline, main_config, payloadVars, hist, cycleObs,
                    prev_snapshot, triggerObs >>

\* One iteration of upload_teleporter_to_secondaries: teleporter::upload_backup
\* uploads the archive and, with update_gravity, triggers the gravity update.
\* After the last secondary the hash and the applied flag are recorded.
UploadStep ==
    /\ pc = "upload"
    /\ \E res \in Outcomes, gravity_res \in Outcomes :
          LET s == idx
              gravity == res = "ok" /\ secondary_piholes[s].update_gravity
              ok == upload_backup(res, gravity, gravity_res)
              next == NextUpload(s, ok)
          IN /\ ~gravity => gravity_res = "ok"
             /\ calls' = << Call(s, "upload_backup", res) >> \o
                         (IF gravity THEN << Call(s, "trigger_gravity_update", gravity_res) >>
                          ELSE << >>)
             /\ session_token' = TokenAfter(
                   IF gravity THEN TokenAfter(session_token, s, gravity_res)
                   ELSE session_token, s, res)
             /\ uploads' = [uploads EXCEPT ![s] = @ + 1]
             /\ upload_failed' = IF ok THEN upload_failed ELSE upload_failed \cup {s}
             /\ all_ok' = (all_ok /\ ok)
             /\ IF next # 0
                THEN /\ pc' = "upload"
                     /\ idx' = next
                     /\ UNCHANGED teleporterState
                ELSE /\ pc' = ApiEntry(main_config).pc
                     /\ idx' = ApiEntry(main_config).idx
                     /\ last_teleporter_hash' = backup_hash
                     /\ last_teleporter_applied' = (all_ok /\ ok)
    /\ UNCHANGED << configVars, clientVars, unitVars, schedObs, main_fetches, last_main_config_hash, hash_tracker, trigger,
                    poll_baseline, main_config, payloadVars, backup_hash, should_upload,
                    hist, visited, logged_out, prev_snapshot, triggerObs >>

(***************************************************************************)
(* The selective round, main side: src/sync/context.rs:352-400 and         *)
(* src/sync/config_sync.rs:71-128.                                         *)
(***************************************************************************)
FetchMainConfig ==
    /\ pc = "fetch_config"
    /\ \E res \in Outcomes, config \in MainConfigs :
          /\ res # "ok" => config = Unread(MainConfigs)
          /\ calls' = << Call(0, "get_config", res) >>
          /\ main_fetches' = Append(main_fetches, "get_config")
          /\ session_token' = TokenAfter(session_token, 0, res)
          /\ main_config' = IF res = "ok" THEN Some(config) ELSE {}
    /\ pc' = AfterFetchConfig.pc
    /\ idx' = AfterFetchConfig.idx
    /\ UNCHANGED << configVars, clientVars, unitVars, schedObs, last_main_config_hash, teleporterState, hash_tracker,
                    trigger, poll_baseline, payloadVars, snapshotLocals, hist, cycleObs,
                    prev_snapshot, triggerObs >>

FetchMainGroups ==
    /\ pc = "fetch_groups"
    /\ \E res \in Outcomes, groups \in MainGroupChoices :
          /\ res # "ok" => groups = Unread(MainGroupChoices)
          /\ calls' = << Call(0, "get_groups", res) >>
          /\ main_fetches' = Append(main_fetches, "get_groups")
          /\ session_token' = TokenAfter(session_token, 0, res)
          /\ IF res = "ok"
             THEN /\ main_groups' = groups
                  /\ main_groups_hash' = Some(hash_value(normalize_groups(groups)))
             ELSE UNCHANGED << main_groups, main_groups_hash >>
    /\ pc' = AfterFetchGroups.pc
    /\ idx' = AfterFetchGroups.idx
    /\ UNCHANGED << configVars, clientVars, unitVars, schedObs, last_main_config_hash, teleporterState, hash_tracker,
                    trigger, poll_baseline, main_config, main_lists, main_lists_hash,
                    snapshotLocals, hist, cycleObs, prev_snapshot, triggerObs >>

FetchMainLists ==
    /\ pc = "fetch_lists"
    /\ \E res \in Outcomes, lists \in MainListChoices :
          /\ res # "ok" => lists = Unread(MainListChoices)
          /\ calls' = << Call(0, "get_lists", res) >>
          /\ main_fetches' = Append(main_fetches, "get_lists")
          /\ session_token' = TokenAfter(session_token, 0, res)
          /\ IF res = "ok"
             THEN /\ main_lists' = lists
                  /\ main_lists_hash' =
                        Some(hash_value(normalize_lists(lists, build_group_lookup(main_groups))))
             ELSE UNCHANGED << main_lists, main_lists_hash >>
    /\ pc' = AfterFetchLists.pc
    /\ idx' = AfterFetchLists.idx
    /\ UNCHANGED << configVars, clientVars, unitVars, schedObs, last_main_config_hash, teleporterState, hash_tracker,
                    trigger, poll_baseline, main_config, main_groups, main_groups_hash,
                    snapshotLocals, hist, cycleObs, prev_snapshot, triggerObs >>

(***************************************************************************)
(* The selective round, one secondary and one category at a time:          *)
(* src/sync/config_sync.rs:130-354. serde_json::to_string of a Value does  *)
(* not fail, so hash_config and hash_value return Ok.                      *)
(***************************************************************************)
Seen(s, category, hash, outcome) ==
    /\ hist' = [hist EXCEPT ![s][category] = [hash |-> hash, outcome |-> outcome]]
    /\ visited' = visited \cup { << s, category >> }

\* patch_config_and_wait_for_ftl_readiness succeeded
PatchApplied(patch_res, ready_res) == patch_res = "ok" /\ ready_res = "ok"

\* Was the reconciliation of a category complete: the fetches succeeded and
\* all n writes of the plan did.
Reconciled(fetched, plan, n) == fetched /\ n = Len(plan)

SecondaryConfig ==
    /\ pc = "sec_config"
    /\ LET s == idx
           key == HashKey("config", s)
       IN IF main_config = {}
          THEN /\ Seen(s, "config", {}, "none")
               /\ calls' = << >>
               /\ UNCHANGED << hash_tracker, session_token >>
          ELSE LET filter == ConfigFilterOf(secondary_piholes[s].sync_config)
                   filtered_config == filter_json(filter, Get(main_config))
                   filtered_hash == hash_config(filtered_config)
               IN IF ~has_changed(hash_tracker, key, filtered_hash)
                  THEN /\ Seen(s, "config", Some(filtered_hash), "skipped")
                       /\ calls' = << >>
                       /\ UNCHANGED << hash_tracker, session_token >>
                  ELSE \E patch_res \in Outcomes, ready_res \in ReadyOutcomes,
                          gravity_res \in Outcomes :
                          LET applied == PatchApplied(patch_res, ready_res)
                              gravity == applied /\ secondary_piholes[s].update_gravity
                          IN /\ patch_res # "ok" => ready_res = "ok"
                             /\ ~gravity => gravity_res = "ok"
                             /\ calls' =
                                   << [ep |-> s, op |-> "patch_config", res |-> patch_res,
                                       target |-> filtered_config] >> \o
                                   (IF patch_res = "ok"
                                    THEN << Call(s, "wait_for_ready", ready_res) >>
                                    ELSE << >>) \o
                                   (IF gravity
                                    THEN << Call(s, "trigger_gravity_update", gravity_res) >>
                                    ELSE << >>)
                             /\ session_token' = TokenAfter(session_token, s, patch_res)
                             /\ hash_tracker' = IF applied
                                                THEN update(hash_tracker, key, filtered_hash)
                                                ELSE hash_tracker
                             /\ Seen(s, "config", Some(filtered_hash),
                                     IF applied THEN "ok" ELSE "failed")
    /\ pc' = AfterApply(idx, 1, hist'[idx]["config"].outcome = "failed").pc
    /\ idx' = AfterApply(idx, 1, hist'[idx]["config"].outcome = "failed").idx
    /\ UNCHANGED << configVars, clientVars, unitVars, schedObs, main_fetches, last_main_config_hash, teleporterState, trigger,
                    poll_baseline, main_config, payloadVars, snapshotLocals, uploads,
                    upload_failed, logged_out, prev_snapshot, triggerObs >>

SecondaryGroups ==
    /\ pc = "sec_groups"
    /\ LET s == idx
           key == HashKey("groups", s)
       IN IF main_groups = << >> \/ main_groups_hash = {}
          THEN /\ Seen(s, "groups", {}, "none")
               /\ calls' = << >>
               /\ UNCHANGED << hash_tracker, session_token >>
          ELSE LET groups_hash == Get(main_groups_hash)
               IN IF ~has_changed(hash_tracker, key, groups_hash)
                  THEN /\ Seen(s, "groups", Some(groups_hash), "skipped")
                       /\ calls' = << >>
                       /\ UNCHANGED << hash_tracker, session_token >>
                  ELSE \E res \in Outcomes, secondary_groups \in SecondaryGroupChoices,
                          write_res \in Outcomes \ {"ok"} :
                          LET plan == sync_groups(main_groups, secondary_groups)
                          IN \E n \in 0..Len(plan) :
                                LET done == Reconciled(res = "ok", plan, n)
                                    writes == IF res = "ok"
                                              THEN WriteCalls(s, plan, n, write_res)
                                              ELSE << >>
                                IN /\ res # "ok" =>
                                         secondary_groups = Unread(SecondaryGroupChoices) /\ n = 0
                                   /\ (res # "ok" \/ n = Len(plan)) => write_res = "err"
                                   /\ calls' = << Call(s, "get_groups", res) >> \o writes
                                   /\ session_token' = TokenAfter(session_token, s, res)
                                   /\ hash_tracker' = IF done
                                                      THEN update(hash_tracker, key, groups_hash)
                                                      ELSE hash_tracker
                                   /\ Seen(s, "groups", Some(groups_hash),
                                           IF done THEN "ok" ELSE "failed")
    /\ pc' = AfterApply(idx, 2, hist'[idx]["groups"].outcome = "failed").pc
    /\ idx' = AfterApply(idx, 2, hist'[idx]["groups"].outcome = "failed").idx
    /\ UNCHANGED << configVars, clientVars, unitVars, schedObs, main_fetches, last_main_config_hash, teleporterState, trigger,
                    poll_baseline, main_config, payloadVars, snapshotLocals, uploads,
                    upload_failed, logged_out, prev_snapshot, triggerObs >>

SecondaryLists ==
    /\ pc = "sec_lists"
    /\ LET s == idx
           key == HashKey("lists", s)
       IN IF main_lists = << >> \/ main_lists_hash = {}
          THEN /\ Seen(s, "lists", {}, "none")
               /\ calls' = << >>
               /\ UNCHANGED << hash_tracker, session_token >>
          ELSE LET lists_hash == Get(main_lists_hash)
               IN IF ~has_changed(hash_tracker, key, lists_hash)
                  THEN /\ Seen(s, "lists", Some(lists_hash), "skipped")
                       /\ calls' = << >>
                       /\ UNCHANGED << hash_tracker, session_token >>
                  ELSE \E groups_res \in Outcomes, secondary_groups \in SecondaryGroupChoices,
                          lists_res \in Outcomes, secondary_lists \in SecondaryListChoices,
                          write_res \in Outcomes \ {"ok"} :
                          LET fetched == groups_res = "ok" /\ lists_res = "ok"
                              plan == sync_lists(main_lists, build_group_lookup(main_groups),
                                                 secondary_groups, secondary_lists,
                                                 secondary_piholes[s].sync_groups)
                          IN \E n \in 0..Len(plan) :
                                LET done == Reconciled(fetched, plan, n)
                                IN /\ groups_res # "ok" =>
                                         /\ secondary_groups = Unread(SecondaryGroupChoices)
                                         /\ lists_res = "ok"
                                   /\ ~fetched =>
                                         secondary_lists = Unread(SecondaryListChoices) /\ n = 0
                                   /\ (~fetched \/ n = Len(plan)) => write_res = "err"
                                   /\ calls' =
                                         << Call(s, "get_groups", groups_res) >> \o
                                         (IF groups_res = "ok"
                                          THEN << Call(s, "get_lists", lists_res) >>
                                          ELSE << >>) \o
                                         (IF fetched THEN WriteCalls(s, plan, n, write_res)
                                          ELSE << >>)
                                   /\ session_token' = TokenAfter(session_token, s, groups_res)
                                   /\ hash_tracker' = IF done
                                                      THEN update(hash_tracker, key, lists_hash)
                                                      ELSE hash_tracker
                                   /\ Seen(s, "lists", Some(lists_hash),
                                           IF done THEN "ok" ELSE "failed")
    /\ pc' = AfterApply(idx, 3, hist'[idx]["lists"].outcome = "failed").pc
    /\ idx' = AfterApply(idx, 3, hist'[idx]["lists"].outcome = "failed").idx
    /\ UNCHANGED << configVars, clientVars, unitVars, schedObs, main_fetches, last_main_config_hash, teleporterState, trigger,
                    poll_baseline, main_config, payloadVars, snapshotLocals, uploads,
                    upload_failed, logged_out, prev_snapshot, triggerObs >>

(***************************************************************************)
(* Teardown: src/sync/context.rs:414-420 and 442-457.                      *)
(***************************************************************************)
\* PiHoleClient::logout as the cycle sees it: without a cached token no
\* request is made; the token is dropped when the DELETE is answered with
\* 410, 2xx or 401. The request-level model is LogoutRequest below.
LogoutClears(response) == response = "gone"

\* Did a step of the cycle that ends fail: the download, an upload, or an
\* apply step of a secondary.
CycleFailed ==
    \/ sync_modes.teleporter /\ backup_hash = {}
    \/ upload_failed # {}
    \/ \E s \in Secondaries, c \in Categories :
          << s, c >> \in visited /\ hist[s][c].outcome = "failed"

\* a perform_sync that hands a failed step to its caller
PerformSyncFailing(failed) == IF failed THEN "Err" ELSE "Ok"
\* perform_sync logs what fails and ends in Ok(()): src/sync/context.rs:419-420
perform_sync_result(failed) == "Ok"

\* Where the scheduler is after a callback returned r: on_tick().await? and
\* on_change().await? end the loop on an error.
AfterCallback(r) == IF r = "Err" THEN "returned" ELSE "idle"

\* The callback returns: what the scheduler and the next cycle keep.
EndCallback ==
    /\ result' = IF trigger = "seed" THEN "Ok" ELSE perform_sync_result(CycleFailed)
    /\ pc' = AfterCallback(result')
    /\ idx' = 0
    /\ trigger' = "none"
    /\ main_fetches' = << >>
    /\ DropLocals
    /\ poll_baseline' =
          CASE trigger = "api" -> Some(hash_config(Get(main_config)))
            [] trigger \in {"initial", "seed"} -> last_main_config_hash'
            [] OTHER -> poll_baseline
    /\ prev_snapshot' =
          IF trigger = "seed" THEN prev_snapshot
          ELSE [hash |-> backup_hash,
                failed |-> upload_failed # {},
                applied |-> /\ backup_hash # {}
                            /\ upload_failed = {}
                            /\ \/ \A s \in Secondaries : IsTeleporter(s) => uploads[s] > 0
                               \/ prev_snapshot.applied /\ prev_snapshot.hash = backup_hash]

\* One iteration of logout_all; before the first one perform_sync records the
\* hash of the main configuration it used.
LogoutStep ==
    /\ pc = "logout"
    /\ last_main_config_hash' =
          IF idx = 0 /\ main_config # {}
          THEN Some(hash_config(Get(main_config)))
          ELSE last_main_config_hash
    /\ logged_out' = logged_out \cup {idx}
    /\ \E response \in LogoutResponses :
          LET ok == LogoutClears(response)
              next == NextLogout(idx, ~session_token[idx] \/ ok)
          IN /\ IF session_token[idx]
                THEN /\ calls' = << Call(idx, "logout", response) >>
                     /\ session_token' = [session_token EXCEPT ![idx] = ~ok]
                ELSE /\ calls' = << >>
                     /\ UNCHANGED session_token
             /\ IF next # -1
                THEN /\ pc' = "logout"
                     /\ idx' = next
                     /\ UNCHANGED << trigger, poll_baseline, main_config, payloadVars,
                                     snapshotLocals, prev_snapshot, result, main_fetches >>
                ELSE EndCallback
    /\ UNCHANGED << configVars, clientVars, unitVars, schedObs, teleporterState, hash_tracker, hist, visited, uploads,
                    upload_failed, ready_failed, cycle_ran >>

Next ==
    \/ InitialSync
    \/ SeedBaseline
    \/ IntervalTick
    \/ FileChange
    \/ ApiPoll
    \/ ReadyStep
    \/ TeleporterDownload
    \/ UploadStep
    \/ FetchMainConfig
    \/ FetchMainGroups
    \/ FetchMainLists
    \/ SecondaryConfig
    \/ SecondaryGroups
    \/ SecondaryLists
    \/ LogoutStep

Spec == Init /\ [][Next]_vars

TypeOK ==
    /\ pc \in {"init", "seed", "idle", "ready", "download", "upload", "fetch_config",
               "fetch_groups", "fetch_lists", "sec_config", "sec_groups", "sec_lists",
               "logout", "returned"}
    /\ idx \in Endpoints
    /\ session_token \in [Endpoints -> BOOLEAN]

(***************************************************************************)
(* Properties of the snapshot round.                                       *)
(***************************************************************************)
\* perform_sync is past the snapshot round of a cycle whose download succeeded.
SnapshotRoundDone ==
    /\ backup_hash # {}
    /\ pc \in {"fetch_config", "fetch_groups", "fetch_lists", "sec_config", "sec_groups",
               "sec_lists", "logout"}

\* C3: in a cycle whose downloaded snapshot has the hash of the previous
\* cycle's snapshot, and that snapshot was applied to every Snapshot-mode
\* secondary, upload_backup (the upload and the gravity update that follows
\* it) is invoked for no secondary.
C3_SnapshotShortCircuit ==
    (backup_hash # {} /\ prev_snapshot.hash = backup_hash /\ prev_snapshot.applied)
        => (pc # "upload" /\ \A s \in Secondaries : uploads[s] = 0)

C3_Witness ==
    /\ SnapshotRoundDone
    /\ pc = "logout"
    /\ prev_snapshot.hash = backup_hash
    /\ prev_snapshot.applied
    /\ ~should_upload

\* C4: when the snapshot has to be pushed, after the snapshot round every
\* Snapshot-mode secondary has had exactly one upload attempt, also when the
\* upload to another one failed, and no Selective-mode secondary has had one.
C4_OneUploadEach ==
    /\ \A s \in Secondaries : uploads[s] <= 1 /\ (IsApi(s) => uploads[s] = 0)
    /\ (SnapshotRoundDone /\ should_upload)
          => \A s \in Secondaries : IsTeleporter(s) => uploads[s] = 1

C4_Witness ==
    /\ SnapshotRoundDone
    /\ should_upload
    /\ IsTeleporter(1) /\ IsTeleporter(2)
    /\ 1 \in upload_failed
    /\ uploads[2] = 1

\* C5: the snapshot is recorded as applied only if no upload of the cycle
\* failed, and after a cycle in which an upload failed the next cycle that
\* downloads a snapshot uploads it to every Snapshot-mode secondary, also when
\* the hash is the same.
C5_FailedUploadIsRetried ==
    SnapshotRoundDone =>
        /\ last_teleporter_applied => upload_failed = {}
        /\ prev_snapshot.failed => \A s \in Secondaries : IsTeleporter(s) => uploads[s] = 1

C5_Witness ==
    /\ SnapshotRoundDone
    /\ prev_snapshot.failed
    /\ prev_snapshot.hash = backup_hash
    /\ \A s \in Secondaries : IsTeleporter(s) => uploads[s] = 1

(***************************************************************************)
(* Properties of the selective round.                                      *)
(***************************************************************************)
ApplyPcs == {"sec_config", "sec_groups", "sec_lists"}
CategoryAt(p) == CASE p = "sec_config" -> "config"
                   [] p = "sec_groups" -> "groups"
                   [] p = "sec_lists" -> "lists"
IsWrite(call) == call.op \in WriteOps
Writes(cs) == { i \in DOMAIN cs : IsWrite(cs[i]) }
\* The calls an apply consists of: all but the gravity update after a PATCH.
ApplyCalls(cs) == { i \in DOMAIN cs : cs[i].op # "trigger_gravity_update" }

\* C1: when the apply step of a secondary and category computes the hash that
\* the previous cycle computed and applied successfully to that secondary, it
\* makes no write call.
C1_ChangeGating ==
    [][ (pc \in ApplyPcs
            /\ hist[idx][CategoryAt(pc)].outcome = "ok"
            /\ hist'[idx][CategoryAt(pc)].hash = hist[idx][CategoryAt(pc)].hash)
         => (Writes(calls') = {}) ]_vars

\* C2: an apply step writes the hash record only when every call of the apply
\* returned Ok, a failed apply leaves the record as it was, and when the
\* previous cycle's apply to a secondary failed and the hash is the same, the
\* apply is made again.
C2_RecordAfterSuccess ==
    [][ (pc \in ApplyPcs) =>
          (LET c == CategoryAt(pc)
               key == HashKey(c, idx)
           IN /\ (hash_tracker'[key] # hash_tracker[key]) =>
                    (/\ calls' # << >>
                     /\ \A i \in ApplyCalls(calls') : calls'[i].res = "ok"
                     /\ hash_tracker'[key] = hist'[idx][c].hash)
              /\ (\E i \in ApplyCalls(calls') : calls'[i].res # "ok") =>
                    (hash_tracker' = hash_tracker)
              /\ (hist[idx][c].outcome = "failed"
                      /\ hist'[idx][c].hash = hist[idx][c].hash) =>
                    (calls' # << >>)) ]_vars

\* The apply steps configured for the Selective-mode secondaries.
ConfiguredSteps ==
    { << s, StepCategory(k) >> : << s, k >> \in { q \in Secondaries \X (1..3) :
                                                    StepEnabled(q[1], q[2]) } }

\* C6: when perform_sync reaches the teardown, every configured apply step of
\* every Selective-mode secondary has been reached, whatever failed for the
\* secondaries before it, and the cycle returns Ok.
C6_FailureIsolation ==
    /\ (pc = "logout" /\ trigger # "seed") => visited = ConfiguredSteps
    /\ (pc = "idle" /\ cycle_ran) => result = "Ok"

C6_Witness ==
    /\ pc = "logout"
    /\ \E s1 \in Secondaries, s2 \in Secondaries, c1 \in Categories, c2 \in Categories :
          /\ s1 < s2
          /\ << s1, c1 >> \in visited /\ hist[s1][c1].outcome = "failed"
          /\ << s2, c2 >> \in visited /\ hist[s2][c2].outcome = "ok"

\* C7: when a secondary did not become ready after a file-watch or API-poll
\* trigger, the triggered callback still ran the cycle for the others.
C7_ReadinessFailureIsolated ==
    (pc = "idle" /\ ready_failed # {} /\ ready_failed \subseteq Secondaries) => cycle_ran

(***************************************************************************)
(* Properties of the teardown.                                             *)
(***************************************************************************)
CyclePcs == {"download", "upload", "fetch_config", "fetch_groups", "fetch_lists",
             "sec_config", "sec_groups", "sec_lists", "logout"}

\* C8: perform_sync returns only from the teardown, the teardown invokes
\* logout on the main instance and on every secondary, and once it has
\* started the only remote calls are logouts.
C8_TeardownEndsCycle ==
    [][ /\ (pc \in CyclePcs /\ pc' \notin CyclePcs) =>
              (pc = "logout" /\ pc' = "idle" /\ logged_out' = Endpoints)
        /\ (pc = "logout") =>
              (/\ pc' \in {"logout", "idle"}
               /\ \A i \in DOMAIN calls' : calls'[i].op = "logout") ]_vars

C8_Witness ==
    /\ pc = "idle"
    /\ cycle_ran
    /\ logged_out = Endpoints
    /\ upload_failed # {}
    /\ \E s \in Secondaries : hist[s]["config"].outcome = "failed"
    /\ calls # << >> /\ calls[1].res = "transport_err"

(***************************************************************************)
(* One PiHoleClient, request by request: src/pihole/client.rs. The cycle   *)
(* stays in its initial state; the server's answers are chosen with \E.    *)
(***************************************************************************)
OptSessionId == { {} } \cup { {i} : i \in SessionIds }
\* A request that got no response, or a response whose body is not the JSON
\* the client decodes.
NoBody(kind) == [kind |-> kind, valid |-> FALSE, sid |-> {}]
\* AuthResponse: session.valid and session.sid
AuthBody(valid, sid) == [kind |-> "json", valid |-> valid, sid |-> sid]
\* Answers to GET /auth sent with token: 401 or valid = false only for a
\* session the server does not hold, and the sid of a session it holds.
CheckResponses(token) ==
    { NoBody("transport_err"), NoBody("undecodable") } \cup
    (IF token \subseteq server_sessions THEN {} ELSE { NoBody("unauthorized") }) \cup
    { AuthBody(token \subseteq server_sessions, s) :
         s \in { {} } \cup { {i} : i \in server_sessions } }
\* Answers to POST /auth
AuthenticateResponses ==
    { NoBody("transport_err"), NoBody("undecodable") } \cup
    { AuthBody(s # {}, s) : s \in OptSessionId }
\* Answers to DELETE /auth: none, 410, 2xx, 401, another status
DeleteResponses == {"transport_err", "gone", "success", "unauthorized", "error_status"}

\* authenticate: Ok and the sid cached when the response carries one.
authenticate(token, response) ==
    IF response.kind = "json" /\ response.sid # {}
    THEN [result |-> "Ok", token |-> response.sid]
    ELSE [result |-> "Err", token |-> token]

\* is_logged_in: Err when the request or the decoding fails, Ok(false) on 401,
\* otherwise Ok(session.valid) with a new sid cached.
is_logged_in(token, response) ==
    CASE response.kind \in {"transport_err", "undecodable"} ->
            [result |-> "Err", value |-> FALSE, token |-> token]
      [] response.kind = "unauthorized" ->
            [result |-> "Ok", value |-> FALSE, token |-> token]
      [] OTHER ->
            [result |-> "Ok", value |-> response.valid,
             token |-> IF response.sid # {} /\ response.sid # token
                       THEN response.sid ELSE token]

\* A client that trusts whatever the identity check answered.
ReauthNever(logged_in) == FALSE

\* ensure_authenticated: re-authenticate when is_logged_in returned Ok(false).
ReauthAfterCheck(logged_in) == ~logged_in

\* logout with a cached token: the token is dropped only when the DELETE was
\* answered with 410, 2xx or 401; the two `?` return before that.
logout(token, response) ==
    IF response \in {"gone", "success", "unauthorized"}
    THEN [result |-> "Ok", token |-> {}]
    ELSE [result |-> "Err", token |-> token]

cycleVars == << trigger_mode, secondary_piholes, last_main_config_hash,
                last_teleporter_hash, last_teleporter_applied, hash_tracker,
                session_token, trigger, pc, idx, poll_baseline, main_config, main_groups,
                main_groups_hash, main_lists, main_lists_hash, backup_hash,
                should_upload, all_ok, calls, hist, visited, uploads, upload_failed,
                prev_snapshot, logged_out, ready_failed, cycle_ran, result, startup,
                update_running, main_fetches >>

\* A call begins: what is remembered of the previous call is forgotten.
ClientBegin(op) ==
    /\ client_pc = "idle"
    /\ client_op' = op
    /\ client_had_token' = (client_token # {})
    /\ client_check' = "none"
    /\ client_auths' = 0
    /\ client_auth_failed' = FALSE

\* ensure_authenticated is called: src/pihole/client.rs:502-509
EnsureAuthenticated ==
    /\ ClientBegin("ensure_authenticated")
    /\ client_pc' = IF client_token = {} THEN "authenticate" ELSE "is_logged_in"
    /\ client_result' = "none"
    /\ UNCHANGED << client_token, server_sessions, cycleVars, unitVars >>

\* its identity check: src/pihole/client.rs:510-513
IsLoggedIn ==
    /\ client_pc = "is_logged_in"
    /\ \E response \in CheckResponses(client_token) :
          LET r == is_logged_in(client_token, response)
          IN /\ client_token' = r.token
             /\ client_check' = CASE r.result = "Err" -> "failed"
                                  [] r.value -> "valid"
                                  [] OTHER -> "invalid"
             /\ IF r.result = "Err"
                THEN client_pc' = "idle" /\ client_result' = "Err"
                ELSE IF ReauthAfterCheck(r.value)
                     THEN client_pc' = "authenticate" /\ client_result' = "none"
                     ELSE client_pc' = "idle" /\ client_result' = "Ok"
    /\ UNCHANGED << client_op, client_had_token, client_auths, client_auth_failed,
                    server_sessions, cycleVars, unitVars >>

\* its authenticate(None): src/pihole/client.rs:506 and 511
Authenticate ==
    /\ client_pc = "authenticate"
    /\ \E response \in AuthenticateResponses :
          LET r == authenticate(client_token, response)
          IN /\ client_token' = r.token
             /\ client_auth_failed' = (r.result = "Err")
             /\ client_result' = r.result
             /\ server_sessions' = server_sessions \cup response.sid
    /\ client_auths' = client_auths + 1
    /\ client_pc' = "idle"
    /\ UNCHANGED << client_op, client_had_token, client_check, cycleVars, unitVars >>

\* logout is called: without a cached token it returns Ok at once.
Logout ==
    /\ ClientBegin("logout")
    /\ IF client_token = {}
       THEN client_pc' = "idle" /\ client_result' = "Ok"
       ELSE client_pc' = "delete" /\ client_result' = "none"
    /\ UNCHANGED << client_token, server_sessions, cycleVars, unitVars >>

\* its DELETE /auth
LogoutRequest ==
    /\ client_pc = "delete"
    /\ \E response \in DeleteResponses :
          LET r == logout(client_token, response)
          IN /\ response = "unauthorized" => ~(client_token \subseteq server_sessions)
             /\ client_token' = r.token
             /\ client_result' = r.result
             /\ client_check' = response
             /\ server_sessions' = IF response \in {"gone", "success"}
                                   THEN server_sessions \ client_token
                                   ELSE server_sessions
    /\ client_pc' = "idle"
    /\ UNCHANGED << client_op, client_had_token, client_auths, client_auth_failed,
                    cycleVars, unitVars >>

\* The server drops a session (its validity period ended).
SessionExpires ==
    /\ \E sid \in server_sessions : server_sessions' = server_sessions \ {sid}
    /\ UNCHANGED << client_token, client_pc, client_op, client_had_token, client_check,
                    client_auths, client_auth_failed, client_result, cycleVars, unitVars >>

\* Another client of the same Pi-hole opens a session.
SessionOpens ==
    /\ \E sid \in SessionIds \ server_sessions : server_sessions' = server_sessions \cup {sid}
    /\ UNCHANGED << client_token, client_pc, client_op, client_had_token, client_check,
                    client_auths, client_auth_failed, client_result, cycleVars, unitVars >>

ClientInit ==
    /\ Init
    /\ trigger_mode = "Interval"
    /\ IsTeleporter(1)

ClientNext ==
    \/ EnsureAuthenticated
    \/ IsLoggedIn
    \/ Authenticate
    \/ Logout
    \/ LogoutRequest
    \/ SessionExpires
    \/ SessionOpens

SpecClient == ClientInit /\ [][ClientNext]_vars

\* C9: when logout returns after a call that began with a cached token, no
\* token is cached, whatever the DELETE request came to.
C9_LogoutClearsToken ==
    (client_op = "logout" /\ client_pc = "idle" /\ client_had_token) => client_token = {}

EnsureAuthenticatedReturned ==
    client_op = "ensure_authenticated" /\ client_pc = "idle"

\* C10 as stated: ensure_authenticated returns Err only after an authenticate
\* of its own failed, an invalid session is followed by exactly one
\* authenticate, and Ok leaves a token cached.
C10_FailsOnlyOnFailedAuth ==
    EnsureAuthenticatedReturned =>
        /\ client_result = "Err" => (client_auths = 1 /\ client_auth_failed)
        /\ client_check = "invalid" => client_auths = 1
        /\ client_result = "Ok" => client_token # {}

\* C10, with the failure of the identity check itself: ensure_authenticated
\* returns Err only after an authenticate of its own failed or after the
\* identity check request failed (no response, or one that does not decode);
\* an invalid session is followed by exactly one authenticate, a valid one by
\* none; Ok leaves a token cached.
C10_FailsOnFailedAuthOrCheck ==
    EnsureAuthenticatedReturned =>
        /\ client_result = "Err" =>
              \/ client_auths = 1 /\ client_auth_failed
              \/ client_auths = 0 /\ client_check = "failed"
        /\ client_check = "invalid" => client_auths = 1
        /\ (client_had_token /\ client_check \in {"valid", "failed"}) => client_auths = 0
        /\ ~client_had_token => (client_check = "none" /\ client_auths = 1)
        /\ client_result = "Ok" => client_token # {}

C10_Witness ==
    /\ EnsureAuthenticatedReturned
    /\ client_had_token
    /\ client_check = "invalid"
    /\ client_auths = 1
    /\ client_result = "Ok"

(***************************************************************************)
(* PiHoleClient::wait_for_ready on its own: src/pihole/client.rs:347-386.  *)
(* Time is counted in milliseconds on a grid of TickMs; an attempt and a   *)
(* sleep take as long as the environment lets them.                        *)
(***************************************************************************)
TickMs == 50
MaxTimeoutTicks == 100
BackoffBaseMs == 50
BackoffMaxExp == 6
BackoffCapMs == 1000

\* the timeouts a caller passes: none, shorter than the first backoff, on and
\* off the instants at which an attempt can end
Timeouts == {0, TickMs, 5 * TickMs, 7 * TickMs, MaxTimeoutTicks * TickMs}
\* how long one ensure_authenticated takes
AttemptDurations == {0, TickMs, 3 * TickMs}
\* how much longer than asked a sleep takes
SleepOverruns == {0, TickMs}

RECURSIVE Pow2(_)
Pow2(n) == IF n = 0 THEN 1 ELSE 2 * Pow2(n - 1)

Min(a, b) == IF a <= b THEN a ELSE b

\* a backoff without the cap
BackoffUncapped(attempt) == Pow2(Min(attempt, BackoffMaxExp)) * BackoffBaseMs
\* (2u64.pow(attempt.min(6)) * 50).min(1_000): src/pihole/client.rs:375
backoff_ms(attempt) == Min(Pow2(Min(attempt, BackoffMaxExp)) * BackoffBaseMs, BackoffCapMs)

\* a failed attempt gives up
TimedOutLate(elapsed, timeout) == elapsed > timeout
\* if elapsed >= timeout: src/pihole/client.rs:364
TimedOut(elapsed, timeout) == elapsed >= timeout

\* wait_for_ready(timeout) is called: start = Instant::now(), attempt = 0
WaitForReady ==
    /\ wait_pc = "idle"
    /\ \E timeout \in Timeouts : wait_timeout' = timeout
    /\ wait_pc' = "attempt"
    /\ wait_attempt' = 0
    /\ wait_elapsed' = 0
    /\ wait_last' = "none"
    /\ wait_result' = "none"
    /\ UNCHANGED << cycleVars, clientVars, reconcileVars,
                    triggerLoopVars, filterVars >>

\* one turn of the loop up to the sleep: src/pihole/client.rs:356-373
WaitAttempt ==
    /\ wait_pc = "attempt"
    /\ \E d \in AttemptDurations, res \in {"ok", "err"} :
          LET elapsed == wait_elapsed + d
          IN  /\ wait_attempt' = wait_attempt + 1
              /\ wait_elapsed' = elapsed
              /\ wait_last' = res
              /\ IF res = "ok"
                 THEN wait_pc' = "done" /\ wait_result' = "Ok"
                 ELSE IF TimedOut(elapsed, wait_timeout)
                      THEN wait_pc' = "done" /\ wait_result' = "Err"
                      ELSE wait_pc' = "sleep" /\ wait_result' = "none"
    /\ UNCHANGED << wait_timeout, cycleVars, clientVars, reconcileVars,
                    triggerLoopVars, filterVars >>

\* sleep(Duration::from_millis(backoff_ms)): src/pihole/client.rs:375-383
WaitSleep ==
    /\ wait_pc = "sleep"
    /\ \E over \in SleepOverruns :
          wait_elapsed' = wait_elapsed + backoff_ms(wait_attempt) + over
    /\ wait_pc' = "attempt"
    /\ UNCHANGED << wait_timeout, wait_attempt, wait_last, wait_result,
                    cycleVars, clientVars, reconcileVars,
                    triggerLoopVars, filterVars >>

\* the caller has the result; the client is free for the next call
WaitReturned ==
    /\ wait_pc = "done"
    /\ wait_pc' = "idle"
    /\ UNCHANGED << wait_timeout, wait_attempt, wait_elapsed, wait_last, wait_result,
                    cycleVars, clientVars, reconcileVars,
                    triggerLoopVars, filterVars >>

WaitInit ==
    /\ Init
    /\ trigger_mode = "Interval"
    /\ IsTeleporter(1)

WaitNext ==
    \/ WaitForReady
    \/ WaitAttempt
    \/ WaitSleep
    \/ WaitReturned

\* The runtime polls the future until it is ready: an attempt that completes
\* and a timer that fires are followed by the next step of the loop.
SpecWait ==
    /\ WaitInit
    /\ [][WaitNext]_vars
    /\ WF_vars(WaitAttempt)
    /\ WF_vars(WaitSleep)

\* C11: every call of wait_for_ready returns; an attempt that succeeds
\* returns Ok at once, an attempt that fails returns the readiness error if
\* the elapsed time has reached the timeout and goes on to the backoff sleep
\* if it has not, so the error is never returned below the timeout.
C11_WaitForReadyTerminates ==
    /\ [][wait_pc = "attempt" =>
            \/ wait_last' = "ok" /\ wait_pc' = "done" /\ wait_result' = "Ok"
            \/ /\ wait_last' = "err"
               /\ wait_elapsed' >= wait_timeout
               /\ wait_pc' = "done"
               /\ wait_result' = "Err"
            \/ /\ wait_last' = "err"
               /\ wait_elapsed' < wait_timeout
               /\ wait_pc' = "sleep"
               /\ wait_result' = "none"]_vars
    /\ [](wait_result = "Err" => (wait_last = "err" /\ wait_elapsed >= wait_timeout))
    /\ (wait_pc = "attempt" ~> wait_pc = "done")

\* a call that retried through the capped backoff and gave up exactly at its
\* timeout
C11_Witness ==
    /\ wait_pc = "done"
    /\ wait_result = "Err"
    /\ wait_attempt >= 3
    /\ wait_elapsed = wait_timeout

(***************************************************************************)
(* The cycle for one Selective-mode secondary that syncs its config and its *)
(* groups: the per-secondary loop of sync_config_api from its config step  *)
(* to its group step (src/sync/config_sync.rs:130-267).                    *)
(***************************************************************************)
SelectiveConfig ==
    [trigger_mode |-> "Interval",
     secondary |-> << ApiInstance("h1", TRUE, ConfigSync("Include", {"dns"}), TRUE, FALSE) >>]

SelectiveInit ==
    /\ Configured(SelectiveConfig)
    /\ AtRest
    /\ ReconcileAtRest
    /\ TriggersAtRest
    /\ FilterAtRest

SelectiveNext ==
    \/ InitialSync
    \/ IntervalTick
    \/ FetchMainConfig
    \/ FetchMainGroups
    \/ SecondaryConfig
    \/ SecondaryGroups
    \/ LogoutStep

SpecSelective == SelectiveInit /\ [][SelectiveNext]_vars

CollectionOps == {"get_groups", "add_group", "update_group",
                  "get_lists", "add_list", "update_list"}

\* C12: in a cycle in which a config PATCH was issued to a secondary and the
\* readiness wait after it has not succeeded (the PATCH failed or the wait
\* timed out), no group or list call is made against that secondary.
C12_ConfigBeforeCollections ==
    [][ \A i \in DOMAIN calls' :
           (calls'[i].op \in CollectionOps /\ calls'[i].ep \in Secondaries) =>
               ~( << calls'[i].ep, "config" >> \in visited
                  /\ hist[calls'[i].ep]["config"].outcome = "failed" ) ]_vars

(***************************************************************************)
(* Reconciliation on its own: sync_groups (src/sync/groups.rs:29-57) and   *)
(* sync_lists (src/sync/lists.rs:115-161) as the group step and the list   *)
(* step of sync_config_api apply them to one secondary, whose collections  *)
(* are kept in full. A write the secondary accepts changes what the        *)
(* payload of the request names and nothing else. The cycle, the client    *)
(* and wait_for_ready stand still.                                         *)
(***************************************************************************)
MainFamilyId == 7
MainKidsId == 8
UnknownGroupId == 9
SecondaryFamilyId == 3

\* GET /groups of the main instance: Default, Family (enabled or not) and Kids
RecMainGroupChoices ==
    { << Group("Default", 0, TRUE, 0) >> \o family \o kids :
        family \in { << >> } \cup { << Group("Family", 1, e, MainFamilyId) >> : e \in BOOLEAN },
        kids \in { << >>, << Group("Kids", 1, TRUE, MainKidsId) >> } }

\* the secondary before the first pass: Default, Family under another id, and
\* a group of its own that has the id Family has on main
RecSecondaryGroupChoices ==
    { << Group("Default", 0, TRUE, 0) >> \o family \o guests :
        family \in { << >>, << Group("Family", 1, TRUE, SecondaryFamilyId) >> },
        guests \in { << >>, << Group("Guests", 1, TRUE, MainFamilyId) >> } }

\* GET /lists of the main instance: a.example in no group, in Family, in
\* Family and Kids, or in Family and a group main does not list; b.example
RecMainListChoices ==
    { << List("a.example", "block", 1, TRUE, g) >> \o b :
        g \in { << >>, << MainFamilyId >>, << MainKidsId, MainFamilyId >>,
                << MainFamilyId, UnknownGroupId >> },
        b \in { << >>, << List("b.example", "allow", 1, TRUE, << 0 >>) >> } }

\* the secondary before the first pass: a.example as it is on main but for
\* its groups, and a list of its own
RecSecondaryListChoices ==
    { a \o c :
        a \in { << >>, << List("a.example", "block", 1, TRUE, << >>) >>,
                << List("a.example", "block", 1, TRUE, << SecondaryFamilyId >>) >> },
        c \in { << >>, << List("c.example", "block", 1, TRUE, << MainFamilyId >>) >> } }

MaxNat(S) == CHOOSE x \in S : \A y \in S : y <= x

\* the id the secondary gives a group it creates
FreshId(groups) == MaxNat({0} \cup {Ids(groups)[i] : i \in 1..Len(groups)}) + 1

\* POST /groups and PUT /groups/{name} with the payload {name, comment,
\* enabled} of add_group and update_group, accepted by the secondary
ApplyGroupWrite(secondary_groups, w, groups) ==
    LET group == groups[LastIdx(Names(groups), w.target)]
    IN IF w.op = "add_group"
       THEN Append(secondary_groups,
                   Group(group.name, group.comment, group.enabled, FreshId(secondary_groups)))
       ELSE [secondary_groups EXCEPT ![LastIdx(Names(secondary_groups), w.target)] =
                [@ EXCEPT !.comment = group.comment, !.enabled = group.enabled]]

\* POST /lists and PUT /lists/{address} with the payload {comment, groups,
\* enabled} of add_list and update_list, accepted by the secondary
ApplyListWrite(secondary_lists, w) ==
    IF w.op = "add_list"
    THEN Append(secondary_lists, w.list)
    ELSE [secondary_lists EXCEPT ![LastIdx(ListKeys(secondary_lists), w.target)] =
             [@ EXCEPT !.comment = w.list.comment, !.groups = w.list.groups,
                       !.enabled = w.list.enabled]]

RECURSIVE ApplyGroupWrites(_, _, _, _)
ApplyGroupWrites(secondary_groups, plan, n, groups) ==
    IF n = 0 THEN secondary_groups
    ELSE ApplyGroupWrite(ApplyGroupWrites(secondary_groups, plan, n - 1, groups),
                         plan[n], groups)

RECURSIVE ApplyListWrites(_, _, _)
ApplyListWrites(secondary_lists, plan, n) ==
    IF n = 0 THEN secondary_lists
    ELSE ApplyListWrite(ApplyListWrites(secondary_lists, plan, n - 1), plan[n])

\* A reconciliation loop that goes on to the end of the plan after a failure.
IssuedWholePlan(plan, n) == plan

\* The writes issued when the first n succeed: the next one fails and `?`
\* returns from sync_groups / sync_lists.
Issued(plan, n) == SubSeq(plan, 1, IF n < Len(plan) THEN n + 1 ELSE n)

restOfReconcile == << cycleVars, clientVars, waitVars, triggerLoopVars, filterVars >>

\* sync_config_api reaches the secondary: src/sync/config_sync.rs:130-144
ReconcilePass ==
    /\ rec_pc = "idle"
    /\ rec_pc' = IF rec_sync_groups THEN "groups" ELSE "lists"
    /\ rec_group_calls' = << >>
    /\ rec_list_calls' = << >>
    /\ rec_failed' = {}
    /\ UNCHANGED << rec_sync_groups, rec_main_groups, rec_main_lists, rec_sec_groups,
                    rec_sec_lists, rec_since, rec_toggled, rec_recorded, restOfReconcile >>

\* the group step: src/sync/config_sync.rs:225-256
ReconcileGroups ==
    /\ rec_pc = "groups"
    /\ LET plan == sync_groups(rec_main_groups, rec_sec_groups)
       IN \E n \in 0..Len(plan) :
             /\ rec_group_calls' = Issued(plan, n)
             /\ rec_sec_groups' = ApplyGroupWrites(rec_sec_groups, plan, n, rec_main_groups)
             /\ rec_failed' = IF n = Len(plan) THEN {} ELSE {"groups"}
    /\ rec_pc' = "lists"
    /\ UNCHANGED << rec_sync_groups, rec_main_groups, rec_main_lists, rec_sec_lists,
                    rec_list_calls, rec_since, rec_toggled, rec_recorded, restOfReconcile >>

\* the list step: src/sync/config_sync.rs:296-339
ReconcileLists ==
    /\ rec_pc = "lists"
    /\ LET plan == sync_lists(rec_main_lists, build_group_lookup(rec_main_groups),
                              rec_sec_groups, rec_sec_lists, rec_sync_groups)
       IN \E n \in 0..Len(plan) :
             /\ rec_list_calls' = Issued(plan, n)
             /\ rec_sec_lists' = ApplyListWrites(rec_sec_lists, plan, n)
             /\ rec_failed' = IF n = Len(plan) THEN rec_failed
                                ELSE rec_failed \cup {"lists"}
    /\ rec_pc' = "idle"
    /\ rec_since' = IF rec_failed' = {} THEN "synced" ELSE "start"
    /\ rec_toggled' = {}
    /\ UNCHANGED << rec_sync_groups, rec_main_groups, rec_main_lists, rec_sec_groups,
                    rec_group_calls, rec_recorded, restOfReconcile >>

\* Between two passes the enabled flag of one group is changed on main.
MainToggles ==
    /\ rec_pc = "idle"
    /\ rec_sync_groups
    /\ rec_since = "synced"
    /\ \E i \in 1..Len(rec_main_groups) :
          /\ rec_main_groups' = [rec_main_groups EXCEPT ![i].enabled = ~@]
          /\ rec_toggled' = { rec_main_groups[i].name }
    /\ rec_since' = "toggled"
    /\ UNCHANGED << rec_pc, rec_sync_groups, rec_main_lists, rec_sec_groups, rec_sec_lists,
                    rec_group_calls, rec_list_calls, rec_failed, rec_recorded,
                    restOfReconcile >>

ReconcileInit ==
    /\ Configured(SelectiveConfig)
    /\ AtRest
    /\ TriggersAtRest
    /\ FilterAtRest
    /\ rec_pc = "idle"
    /\ rec_sync_groups \in BOOLEAN
    /\ rec_main_groups \in RecMainGroupChoices
    /\ rec_main_lists \in RecMainListChoices
    /\ rec_sec_groups \in RecSecondaryGroupChoices
    /\ rec_sec_lists \in RecSecondaryListChoices
    /\ rec_group_calls = << >>
    /\ rec_list_calls = << >>
    /\ rec_failed = {}
    /\ rec_since = "start"
    /\ rec_toggled = {}
    /\ rec_recorded = {}

ReconcileNext ==
    \/ ReconcilePass
    \/ ReconcileGroups
    \/ ReconcileLists
    \/ MainToggles

SpecReconcile == ReconcileInit /\ [][ReconcileNext]_vars

SecondaryOnlyGroups == { i \in 1..Len(rec_sec_groups) :
                           ~HasKey(Names(rec_main_groups), rec_sec_groups[i].name) }
SecondaryOnlyLists == { i \in 1..Len(rec_sec_lists) :
                          ~HasKey(ListKeys(rec_main_lists), ListKey(rec_sec_lists[i])) }

\* C13: the group step issues only add_group and update_group, the list step
\* only add_list and update_list; a group (by name) or a list (by address and
\* type) that the secondary has and main has not is the target of no call
\* and is on the secondary, unchanged, after the step.
C13_NeverDestructive ==
    [][ /\ rec_pc = "groups" =>
              /\ \A j \in DOMAIN rec_group_calls' :
                    rec_group_calls'[j].op \in {"add_group", "update_group"}
              /\ Len(rec_sec_groups') >= Len(rec_sec_groups)
              /\ \A i \in SecondaryOnlyGroups :
                    /\ rec_sec_groups'[i] = rec_sec_groups[i]
                    /\ \A j \in DOMAIN rec_group_calls' :
                          rec_group_calls'[j].target # rec_sec_groups[i].name
        /\ rec_pc = "lists" =>
              /\ \A j \in DOMAIN rec_list_calls' :
                    rec_list_calls'[j].op \in {"add_list", "update_list"}
              /\ Len(rec_sec_lists') >= Len(rec_sec_lists)
              /\ \A i \in SecondaryOnlyLists :
                    /\ rec_sec_lists'[i] = rec_sec_lists[i]
                    /\ \A j \in DOMAIN rec_list_calls' :
                          rec_list_calls'[j].target # ListKey(rec_sec_lists[i]) ]_vars

\* a pass that wrote groups and lists to a secondary that has a group and a
\* list of its own
C13_Witness ==
    /\ rec_pc = "idle"
    /\ rec_since = "synced"
    /\ rec_group_calls # << >>
    /\ rec_list_calls # << >>
    /\ SecondaryOnlyGroups # {}
    /\ SecondaryOnlyLists # {}

\* C14: a pass that follows a complete pass (every write accepted and
\* applied) with main unchanged in between issues no group write and no
\* list write.
C14_SecondPassIsSilent ==
    [][ (rec_since = "synced" /\ rec_pc \in {"groups", "lists"}) =>
            (rec_group_calls' = << >> /\ rec_list_calls' = << >> /\ rec_failed' = {}) ]_vars

\* the end of a second pass, after a first pass that created and updated
C14_Witness ==
    /\ rec_pc = "idle"
    /\ rec_since = "synced"
    /\ rec_group_calls = << >>
    /\ rec_list_calls = << >>
    /\ rec_sec_groups \notin RecSecondaryGroupChoices
    /\ rec_sec_lists \notin RecSecondaryListChoices

\* C15: when a complete pass has brought the secondary in sync and then the
\* enabled flag of exactly one group changes on main, the group step of the
\* next pass issues exactly one call, an update_group for that group.
C15_MinimalUpdate ==
    [][ (rec_since = "toggled" /\ rec_pc = "groups") =>
            \E name \in rec_toggled :
                rec_group_calls' = << [op |-> "update_group", target |-> name] >> ]_vars

\* such a pass has run its group step for a group other than the first of
\* three
C15_Witness ==
    /\ rec_since = "toggled"
    /\ rec_pc = "lists"
    /\ Len(rec_main_groups) = 3
    /\ rec_toggled = {"Family"}
    /\ Len(rec_group_calls) = 1

\* the ids of a membership
IdSet(groups) == { groups[i] : i \in 1..Len(groups) }

\* the ids the secondary has for the groups that main has under the id gid,
\* matched by name in the collections themselves
SecondaryIdsOf(gid) ==
    { Get(rec_sec_groups[k].id) :
        k \in { k2 \in 1..Len(rec_sec_groups) :
                  \E m \in 1..Len(rec_main_groups) :
                      /\ rec_main_groups[m].id = Some(gid)
                      /\ rec_main_groups[m].name = rec_sec_groups[k2].name } }

MainListAt(key) == rec_main_lists[LastIdx(ListKeys(rec_main_lists), key)]

\* C16: with group sync enabled, the membership of every list written by the
\* list step contains, for every group id of the main list whose group has a
\* namesake on the secondary, the namesake's id; every id written is such an
\* id or 0.
C16_GroupNameRemapping ==
    [][ (rec_pc = "lists" /\ rec_sync_groups) =>
            \A j \in DOMAIN rec_list_calls' :
                LET written == IdSet(rec_list_calls'[j].list.groups)
                    main_ids == IdSet(MainListAt(rec_list_calls'[j].target).groups)
                IN /\ \A g \in main_ids : SecondaryIdsOf(g) \subseteq written
                   /\ \A id \in written :
                         id = 0 \/ \E g \in main_ids : id \in SecondaryIdsOf(g) ]_vars

\* a list in main's Family (id 7) written with the id Family has on a
\* secondary whose id 7 is another group
C16_Witness ==
    /\ rec_pc = "idle"
    /\ rec_sync_groups
    /\ \E j \in DOMAIN rec_list_calls :
          /\ MainFamilyId \in IdSet(MainListAt(rec_list_calls[j].target).groups)
          /\ MainFamilyId \notin IdSet(rec_list_calls[j].list.groups)
          /\ IdSet(rec_list_calls[j].list.groups) \ {0} # {}
    /\ \E k \in 1..Len(rec_sec_groups) :
          rec_sec_groups[k].name = "Guests" /\ rec_sec_groups[k].id = Some(MainFamilyId)

\* the membership the fallback policy gives a main list on the secondary
FallbackMembership(list) ==
    IF ~rec_sync_groups /\ \E g \in IdSet(list.groups) : g # 0
    THEN {0}
    ELSE { IF SecondaryIdsOf(g) # {} THEN Get(SecondaryIdsOf(g)) ELSE 0 :
             g \in IdSet(RawGroups(list)) }

\* a main list with a group that has no namesake on the secondary
Unresolvable(list) ==
    \E g \in IdSet(list.groups) : g # 0 /\ SecondaryIdsOf(g) = {}

\* C17: when the list step fails in no write, every main list is on the
\* secondary with the membership of the fallback policy: 0 in place of every
\* group without a namesake on the secondary and the namesake's id for the
\* others, or exactly {0} when group sync is disabled and the main list is in
\* a non-default group. The fallback itself fails nothing: the step fails
\* only in a write the secondary rejects.
C17_LossyButSafeFallback ==
    [][ (rec_pc = "lists" /\ "lists" \notin rec_failed') =>
            \A i \in 1..Len(rec_main_lists) :
                /\ HasKey(ListKeys(rec_sec_lists'), ListKey(rec_main_lists[i]))
                /\ IdSet(RawGroups(rec_sec_lists'[LastIdx(ListKeys(rec_sec_lists'),
                                                         ListKey(rec_main_lists[i]))]))
                      = FallbackMembership(rec_main_lists[i]) ]_vars

\* a list step that failed in nothing and wrote a list with 0 in place of an
\* unresolvable group, next to the id of a resolved one
C17_Witness ==
    /\ rec_pc = "idle"
    /\ "lists" \notin rec_failed
    /\ rec_sync_groups
    /\ \E j \in DOMAIN rec_list_calls :
          /\ Unresolvable(MainListAt(rec_list_calls[j].target))
          /\ 0 \in IdSet(rec_list_calls[j].list.groups)
          /\ IdSet(rec_list_calls[j].list.groups) # {0}

\* a list step that failed in nothing and wrote {0} for a list in a group
\* the secondary has, because group sync is disabled
FallbackWithoutGroupSync ==
    /\ rec_pc = "idle"
    /\ "lists" \notin rec_failed
    /\ ~rec_sync_groups
    /\ \E j \in DOMAIN rec_list_calls :
          /\ \E g \in IdSet(MainListAt(rec_list_calls[j].target).groups) :
                SecondaryIdsOf(g) \ {0} # {}
          /\ IdSet(rec_list_calls[j].list.groups) = {0}

(***************************************************************************)
(* The trigger loops on their own: src/sync/triggers.rs, driven as         *)
(* src/sync/tests.rs drives them, with a callback that does nothing but    *)
(* succeed or fail. One loop runs per behaviour. The sender of the file    *)
(* watch channel lives as long as the loop (watch_config_file holds the    *)
(* watcher), so rx.recv() never returns None.                              *)
(***************************************************************************)
MaxQueued == 3
MaxIterations == 3

CallbackResults == {"Ok", "Err"}

\* notify::Result<notify::Event>: an event with its paths, or an error
FileEvents ==
    { [ok |-> TRUE, paths |-> ps] :
        ps \in { {}, {"other"}, {"target_path"}, {"canonical_target"},
                 {"other", "canonical_target"} } }
    \cup { [ok |-> FALSE, paths |-> {}] }

\* a comparison with the literal path only
AffectsLiteralOnly(event) == event.ok /\ "target_path" \in event.paths
\* event.paths.iter().any(|path| path == &target_path || path == &canonical_target)
affects_target(event) ==
    event.ok /\ \E path \in event.paths : path = "target_path" \/ path = "canonical_target"

AffectingIn(rx) == Cardinality({ i \in 1..Len(rx) : affects_target(rx[i]) })

\* a drain that takes one event
DrainedOne(rx) == IF rx = << >> THEN rx ELSE Tail(rx)
\* while let Ok(evt) = rx.try_recv() { .. }: what is left in rx
Drained(rx) == << >>

\* a comparison that takes a missing baseline for "unchanged"
ChangedFromKnown(last, current_hash) == last # {} /\ Get(last) # current_hash
\* last_main_config_hash.map_or(true, |prev| prev != current_hash)
ConfigChanged(last, current_hash) == last = {} \/ Get(last) # current_hash

\* if iterations >= max { break; }
IterationsDone(iterations, max) == iterations >= max

restOfTriggers == << cycleVars, clientVars, waitVars, reconcileVars, filterVars >>
intervalVars == << iv_max_iterations, iv_iterations, iv_ticks, iv_sleeps >>
fileVars == << fw_rx, fw_served >>
apiVars == << api_last_hash, api_fetched, api_arg >>

\* sleep(sync_interval).await: src/sync/triggers.rs:29
IntervalSleep ==
    /\ trig_fn = "interval"
    /\ trig_pc = "sleep"
    /\ trig_pc' = "on_tick"
    /\ iv_sleeps' = Min(iv_sleeps + 1, MaxIterations + 2)
    /\ UNCHANGED << trig_fn, trig_result, iv_max_iterations, iv_iterations, iv_ticks,
                    fileVars, apiVars, restOfTriggers >>

\* on_tick().await? and the count: src/sync/triggers.rs:30-36
IntervalOnTick ==
    /\ trig_fn = "interval"
    /\ trig_pc = "on_tick"
    /\ iv_ticks' = Min(iv_ticks + 1, MaxIterations + 2)
    /\ \E res \in CallbackResults :
          IF res = "Err"
          THEN /\ trig_pc' = "returned"
               /\ trig_result' = "Err"
               /\ UNCHANGED iv_iterations
          ELSE IF iv_max_iterations = {}
          THEN /\ trig_pc' = "sleep"
               /\ UNCHANGED << trig_result, iv_iterations >>
          ELSE /\ iv_iterations' = iv_iterations + 1
               /\ IF IterationsDone(iv_iterations', Get(iv_max_iterations))
                  THEN trig_pc' = "returned" /\ trig_result' = "Ok"
                  ELSE trig_pc' = "sleep" /\ UNCHANGED trig_result
    /\ UNCHANGED << trig_fn, iv_max_iterations, iv_sleeps, fileVars, apiVars,
                    restOfTriggers >>

\* the watcher's callback sends an event: src/sync/triggers.rs:56-61
FileEventArrives ==
    /\ trig_fn = "file"
    /\ trig_pc # "returned"
    /\ Len(fw_rx) < MaxQueued
    /\ \E event \in FileEvents : fw_rx' = Append(fw_rx, event)
    /\ UNCHANGED << trig_fn, trig_pc, trig_result, fw_served, intervalVars, apiVars,
                    restOfTriggers >>

\* rx.recv().await with an event queued: src/sync/triggers.rs:82-91, 118
FileRecv ==
    /\ trig_fn = "file"
    /\ trig_pc = "recv"
    /\ fw_rx # << >>
    /\ fw_rx' = Tail(fw_rx)
    /\ trig_pc' = IF affects_target(Head(fw_rx)) THEN "debounce" ELSE "recv"
    /\ UNCHANGED << trig_fn, trig_result, fw_served, intervalVars, apiVars,
                    restOfTriggers >>

\* sleep(FILE_WATCH_DEBOUNCE) ends and the burst is drained:
\* src/sync/triggers.rs:97-113
FileDebounce ==
    /\ trig_fn = "file"
    /\ trig_pc = "debounce"
    /\ fw_rx' = Drained(fw_rx)
    /\ fw_served' = 1 + AffectingIn(fw_rx) - AffectingIn(fw_rx')
    /\ trig_pc' = "on_change"
    /\ UNCHANGED << trig_fn, trig_result, intervalVars, apiVars, restOfTriggers >>

\* on_change().await?: src/sync/triggers.rs:115
FileOnChange ==
    /\ trig_fn = "file"
    /\ trig_pc = "on_change"
    /\ \E res \in CallbackResults :
          IF res = "Ok"
          THEN trig_pc' = "recv" /\ UNCHANGED trig_result
          ELSE trig_pc' = "returned" /\ trig_result' = "Err"
    /\ UNCHANGED << trig_fn, fileVars, intervalVars, apiVars, restOfTriggers >>

\* sleep(poll_interval), fetch_config and the comparison:
\* src/sync/triggers.rs:162-173, 174-186
ApiFetch ==
    /\ trig_fn = "api"
    /\ trig_pc = "sleep"
    /\ \E res \in {"ok", "err"}, main_config_doc \in MainConfigs :
          /\ res = "err" => main_config_doc = Unread(MainConfigs)
          /\ api_fetched' = IF res = "ok" THEN Some(main_config_doc) ELSE {}
          /\ IF res = "ok" /\ ConfigChanged(api_last_hash, hash_config(main_config_doc))
             THEN trig_pc' = "on_change" /\ api_arg' = Some(main_config_doc)
             ELSE trig_pc' = "sleep" /\ UNCHANGED api_arg
    /\ UNCHANGED << trig_fn, trig_result, api_last_hash, intervalVars, fileVars,
                    restOfTriggers >>

\* on_change(main_config.clone()).await?; last_main_config_hash =
\* Some(current_hash): src/sync/triggers.rs:173-174
ApiOnChange ==
    /\ trig_fn = "api"
    /\ trig_pc = "on_change"
    /\ \E res \in CallbackResults :
          IF res = "Ok"
          THEN /\ api_last_hash' = Some(hash_config(Get(api_fetched)))
               /\ trig_pc' = "sleep"
               /\ UNCHANGED trig_result
          ELSE /\ trig_pc' = "returned"
               /\ trig_result' = "Err"
               /\ UNCHANGED api_last_hash
    /\ UNCHANGED << trig_fn, api_fetched, api_arg, intervalVars, fileVars,
                    restOfTriggers >>

\* run_interval_mode(_, _, max_iterations), process_file_watch_events(..) or
\* watch_config_api_with_fetch(_, last_main_config_hash, ..) is called
TriggersInit ==
    /\ Configured(SelectiveConfig)
    /\ AtRest
    /\ ReconcileAtRest
    /\ FilterAtRest
    /\ trig_fn \in {"interval", "file", "api"}
    /\ trig_pc = IF trig_fn = "file" THEN "recv" ELSE "sleep"
    /\ trig_result = "running"
    /\ iv_max_iterations \in
          IF trig_fn = "interval" THEN { {} } \cup { {n} : n \in 0..MaxIterations }
          ELSE { {} }
    /\ iv_iterations = 0
    /\ iv_ticks = 0
    /\ iv_sleeps = 0
    /\ fw_rx = << >>
    /\ fw_served = 0
    /\ api_last_hash \in
          IF trig_fn = "api" THEN { {} } \cup { Some(hash_config(d)) : d \in MainConfigs }
          ELSE { {} }
    /\ api_fetched = {}
    /\ api_arg = {}

TriggersNext ==
    \/ IntervalSleep
    \/ IntervalOnTick
    \/ FileEventArrives
    \/ FileRecv
    \/ FileDebounce
    \/ FileOnChange
    \/ ApiFetch
    \/ ApiOnChange

SpecTriggers == TriggersInit /\ [][TriggersNext]_vars

\* C18: a debounce starts only at the receipt of an event one of whose paths
\* is the literal or the canonical target path; when its window ends, every
\* event queued by then is taken in (none for the target is left in rx), the
\* callback is invoked, and after that one invocation the loop waits for the
\* next event: the N events of the burst cause one invocation.
C18_DebounceCoalesces ==
    [][ trig_fn = "file" =>
          /\ (trig_pc' = "debounce" /\ trig_pc # "debounce") =>
                (trig_pc = "recv" /\ fw_rx # << >> /\ affects_target(Head(fw_rx)))
          /\ (trig_pc = "debounce" /\ trig_pc' # "debounce") =>
                /\ trig_pc' = "on_change"
                /\ AffectingIn(fw_rx') = 0
                /\ fw_served' = 1 + AffectingIn(fw_rx)
          /\ (trig_pc' = "on_change" /\ trig_pc # "on_change") => trig_pc = "debounce"
          /\ (trig_pc = "on_change" /\ trig_pc' # "on_change") =>
                trig_pc' \in {"recv", "returned"} ]_vars

\* the callback is about to be invoked once for a burst of at least three
\* events for the target
C18_Witness ==
    /\ trig_fn = "file"
    /\ trig_pc = "on_change"
    /\ fw_served >= 3


\* C19: at a poll the callback is invoked exactly when the fetch succeeded
\* and the baseline is absent or differs from the hash of the fetched
\* document, and its argument is that document; a poll never changes the
\* baseline; a callback that returns Ok leaves the baseline equal to the hash
\* of the fetched document, and one that fails leaves the baseline alone.
C19_ApiPollTrigger ==
    [][ trig_fn = "api" =>
          /\ trig_pc = "sleep" =>
                /\ trig_pc' = "on_change" <=>
                      /\ api_fetched' # {}
                      /\ \/ api_last_hash = {}
                         \/ Get(api_last_hash) # hash_config(Get(api_fetched'))
                /\ trig_pc' = "on_change" => api_arg' = api_fetched'
                /\ trig_pc' # "on_change" => trig_pc' = "sleep" /\ api_arg' = api_arg
                /\ api_last_hash' = api_last_hash
          /\ trig_pc = "on_change" =>
                /\ trig_pc' = "sleep" =>
                      api_last_hash' = Some(hash_config(Get(api_fetched)))
                /\ trig_pc' # "sleep" =>
                      /\ trig_pc' = "returned"
                      /\ trig_result' = "Err"
                      /\ api_last_hash' = api_last_hash ]_vars

\* the callback was invoked with the fetched document and has returned Ok
C19_Witness ==
    /\ trig_fn = "api"
    /\ trig_pc = "sleep"
    /\ api_arg # {}
    /\ api_arg = api_fetched
    /\ api_last_hash = Some(hash_config(Get(api_fetched)))


\* the number of invocations a bound of n stands for: the count is compared
\* after the first invocation, so a bound of 0 runs the loop once
InvocationsFor(n) == IF n = 0 THEN 1 ELSE n

IntervalTriggerAsCoded ==
    trig_fn = "interval" =>
        /\ iv_sleeps = IF trig_pc = "on_tick" THEN Min(iv_ticks + 1, MaxIterations + 2)
                       ELSE iv_ticks
        /\ (trig_pc = "returned" /\ trig_result = "Ok") =>
              /\ iv_max_iterations # {}
              /\ iv_ticks = InvocationsFor(Get(iv_max_iterations))
        /\ (trig_pc = "returned" /\ trig_result = "Err" /\ iv_max_iterations # {}) =>
              /\ iv_ticks >= 1
              /\ iv_ticks <= InvocationsFor(Get(iv_max_iterations))
        /\ (trig_pc # "returned" /\ iv_max_iterations # {}) =>
              iv_ticks < InvocationsFor(Get(iv_max_iterations))
        /\ trig_pc = "returned" <=> trig_result # "running"

\* a loop with the bound MaxIterations has returned Ok
IntervalBoundReached ==
    /\ trig_fn = "interval"
    /\ trig_pc = "returned"
    /\ trig_result = "Ok"
    /\ iv_max_iterations = {MaxIterations}
    /\ iv_ticks = MaxIterations


(***************************************************************************)
(* The scheduler and its cycles: src/sync/context.rs:206-277 with          *)
(* src/sync/triggers.rs.                                                   *)
(***************************************************************************)
\* C21: whatever failed in it, the callback of an interval tick, a file
\* event or a poll returns Ok; the loop that ran it does not return and is
\* back where it takes its next trigger.
C21_SchedulerSurvives ==
    /\ [](pc # "returned")
    /\ [](pc = "idle" => ENABLED (IntervalTick \/ FileChange \/ ApiPoll))
    /\ [][ (trigger \in {"interval", "file", "api"} /\ trigger' = "none") =>
              (result' = "Ok" /\ pc' = "idle") ]_vars

\* a triggered callback runs after a cycle in which an upload failed
C21_Witness ==
    /\ trigger \in {"interval", "file", "api"}
    /\ prev_snapshot.failed
    /\ cycle_ran


(***************************************************************************)
(* ConfigFilter on JSON trees: src/pihole/config_filter.rs. A path is the  *)
(* sequence of its characters, so that split, join, starts_with and nth    *)
(* are what they are on a String. A tree is a scalar, an object (a         *)
(* function from keys to trees) or an array (a sequence of trees). The     *)
(* filter of the cycle above is this one on documents of one level.        *)
(***************************************************************************)
MaxItems == 2
MaxPaths == 2

JsonScalar(v) == [kind |-> "scalar", value |-> v]
JsonObject(fields) == [kind |-> "object", fields |-> fields]
JsonArray(items) == [kind |-> "array", items |-> items]
EmptyObject == JsonObject([k \in {} |-> 0])

KeyA == << "a" >>
KeyAB == << "a", "b" >>
KeyDns == << "d", "n", "s" >>
KeyUpstreams == << "u", "p", "s", "t", "r", "e", "a", "m", "s" >>
KeyHosts == << "h", "o", "s", "t", "s" >>
Keys == {KeyA, KeyAB}

\* format!("{}", idx) of an index below ten
Digits == << "0", "1", "2", "3", "4", "5", "6", "7", "8", "9" >>

\* an enumeration that counts from one
IndexFromOne(i) == i
\* arr.into_iter().enumerate(): the index of the i-th element
EnumerateIndex(i) == i - 1

\* format!("{}.{}", path, key), or the key at the root
JoinKey(path, key) == IF path = << >> THEN key ELSE path \o << "." >> \o key
\* format!("{}[{}]", path, idx)
JoinIndex(path, index) == path \o << "[", Digits[index + 1], "]" >>

\* a path kept whole
WholePath(path) == path
\* path.split('[').next().unwrap()
base_path_of(path) ==
    LET hits == { i \in 1..Len(path) : path[i] = "[" }
    IN IF hits = {} THEN path
       ELSE SubSeq(path, 1, (CHOOSE i \in hits : \A j \in hits : i <= j) - 1)

\* no parent is looked at
NoParents(path) == {}
\* parts = path.split('.'); while parts.len() > 1 { parts.pop(); parts.join(".") }
ParentPaths(path) == { SubSeq(path, 1, i - 1) : i \in { j \in 1..Len(path) : path[j] = "." } }

starts_with(s, prefix) == Len(prefix) <= Len(s) /\ SubSeq(s, 1, Len(prefix)) = prefix

\* FilterMode::OptIn of should_include_path
OptInIncludes(paths, path) ==
    LET base_path == base_path_of(path)
    IN \/ path \in paths
       \/ base_path \in paths
       \/ \E parent_path \in ParentPaths(base_path) : parent_path \in paths
       \/ \E included_path \in paths :
             /\ starts_with(included_path, base_path)
             /\ \/ Len(included_path) = Len(base_path)
                \/ included_path[Len(base_path) + 1] = "."

\* an exclusion that excludes nothing
OptOutIncludesAll(paths, path) == TRUE
\* FilterMode::OptOut of should_include_path
OptOutIncludes(paths, path) ==
    /\ path \notin paths
    /\ \A parent_path \in ParentPaths(path) : parent_path \notin paths

ShouldIncludePath(filter, path) ==
    IF filter.mode = "OptIn" THEN OptInIncludes(filter.paths, path)
    ELSE OptOutIncludes(filter.paths, path)

RECURSIVE FilterValue(_, _, _)
RECURSIVE FilterObject(_, _, _)
RECURSIVE FilterArray(_, _, _)

FilterObject(filter, obj, path) ==
    LET kept == { key \in DOMAIN obj : ShouldIncludePath(filter, JoinKey(path, key)) }
    IN [key \in kept |-> FilterValue(filter, obj[key], JoinKey(path, key))]

FilterArray(filter, arr, path) ==
    LET current_path(i) == JoinIndex(path, EnumerateIndex(i))
        kept == { i \in 1..Len(arr) : ShouldIncludePath(filter, current_path(i)) }
        nth(k) == CHOOSE i \in kept : Cardinality({ j \in kept : j < i }) = k - 1
    IN [k \in 1..Cardinality(kept) |->
            FilterValue(filter, arr[nth(k)], current_path(nth(k)))]

FilterValue(filter, value, current_path) ==
    CASE value.kind = "object" ->
            JsonObject(FilterObject(filter, value.fields, current_path))
      [] value.kind = "array" ->
            JsonArray(FilterArray(filter, value.items, current_path))
      [] OTHER -> value

\* a filter without paths that passes everything in both modes
EmptyFilterPasses(mode, json) == json
\* filter_json with self.paths.is_empty()
EmptyFilterResult(mode, json) == IF mode = "OptIn" THEN EmptyObject ELSE json

FilterJson(filter, json) ==
    IF filter.paths = {} THEN EmptyFilterResult(filter.mode, json)
    ELSE FilterValue(filter, json, << >>)

FilterModes == {"OptIn", "OptOut"}

\* The trees: scalars, objects of scalars, arrays of up to MaxItems scalars
\* and objects, and documents that hold one of these under "a" and a scalar
\* under "ab"; the configuration {dns: {upstreams: ["1.1.1.1"], hosts: ["x"]}}.
Scalars == { JsonScalar(1), JsonScalar(2) }
FlatObjects ==
    { JsonObject(f) : f \in UNION { [K -> Scalars] : K \in SUBSET Keys } }
Items == Scalars \cup { JsonObject([key \in Keys |-> IF key = KeyA THEN JsonScalar(1)
                                                     ELSE JsonScalar(2)]) }
Arrays == { JsonArray(s) : s \in UNION { [1..n -> Items] : n \in 0..MaxItems } }
Values == Scalars \cup FlatObjects \cup Arrays
Documents ==
    { JsonObject(f) :
        f \in { g \in UNION { [K -> Values] : K \in SUBSET Keys } :
                  KeyAB \in DOMAIN g => g[KeyAB] \in Scalars } }
ReferenceConfig ==
    JsonObject([section \in {KeyDns} |->
        JsonObject([key \in {KeyUpstreams, KeyHosts} |->
            JsonArray(<< JsonScalar(IF key = KeyUpstreams THEN 1 ELSE 2) >>)])])
JsonTrees == Documents \cup Values \cup {ReferenceConfig}

\* The filter keys: a key, a key of the object "a", an element of the array
\* "a", the key "a" of such an element; dns.upstreams.
Paths ==
    Keys
    \cup { JoinKey(KeyA, key) : key \in Keys }
    \cup { JoinIndex(KeyA, i) : i \in 0..(MaxItems - 1) }
    \cup { JoinKey(JoinIndex(KeyA, i), KeyA) : i \in 0..(MaxItems - 1) }
ReferencePaths == { JoinKey(KeyDns, KeyUpstreams) }
PathSets == { P \in SUBSET Paths : Cardinality(P) <= MaxPaths } \cup {ReferencePaths}

ConfigFilterNew(paths, mode) == [paths |-> paths, mode |-> mode]

restOfFilter == << cycleVars, clientVars, waitVars, reconcileVars, triggerLoopVars >>

\* filter.filter_json(json): on the tree the first time, on what it returned
\* the second time
FilterJsonCall ==
    \E mode \in FilterModes :
        /\ Len(flt_result[mode]) < 2
        /\ LET filter == ConfigFilterNew(flt_paths, mode)
               json == IF flt_result[mode] = << >> THEN flt_json ELSE flt_result[mode][1]
           IN flt_result' =
                 [flt_result EXCEPT ![mode] = Append(@, FilterJson(filter, json))]
        /\ UNCHANGED << flt_json, flt_paths, restOfFilter >>

FilterInit ==
    /\ Configured(SelectiveConfig)
    /\ AtRest
    /\ ReconcileAtRest
    /\ TriggersAtRest
    /\ flt_json \in JsonTrees
    /\ flt_paths \in PathSets
    /\ flt_result = [mode \in FilterModes |-> << >>]

FilterNext == FilterJsonCall

SpecFilter == FilterInit /\ [][FilterNext]_vars

EndsInIndex(path) == path # << >> /\ path[Len(path)] = "]"

RECURSIVE ArrayFree(_)
ArrayFree(value) ==
    CASE value.kind = "array" -> FALSE
      [] value.kind = "object" ->
            \A key \in DOMAIN value.fields : ArrayFree(value.fields[key])
      [] OTHER -> TRUE

\* the scalars of a tree without arrays, each with its path
RECURSIVE ScalarLeaves(_, _)
ScalarLeaves(value, path) ==
    CASE value.kind = "scalar" -> { << path, value.value >> }
      [] value.kind = "object" ->
            UNION { ScalarLeaves(value.fields[key], JoinKey(path, key)) :
                      key \in DOMAIN value.fields }
      [] OTHER -> {}

\* two trees merged by path
RECURSIVE MergedByPath(_, _)
MergedByPath(x, y) ==
    IF x.kind = "object" /\ y.kind = "object"
    THEN JsonObject([key \in DOMAIN x.fields \cup DOMAIN y.fields |->
            IF key \notin DOMAIN y.fields THEN x.fields[key]
            ELSE IF key \notin DOMAIN x.fields THEN y.fields[key]
            ELSE MergedByPath(x.fields[key], y.fields[key])])
    ELSE x

\* does a path of the set lead below a scalar of the tree
LeadsBelowScalar(paths, json) ==
    \E leaf \in ScalarLeaves(json, << >>), path \in paths :
        /\ starts_with(path, leaf[1])
        /\ Len(path) > Len(leaf[1])
        /\ path[Len(leaf[1]) + 1] = "."

BothModesApplied == \A mode \in FilterModes : flt_result[mode] # << >>

\* C23 as stated, for every path set and every tree without arrays: the two
\* results share no scalar and merged by path they are the tree.
C23_Complementary ==
    (BothModesApplied /\ flt_json.kind = "object" /\ ArrayFree(flt_json)) =>
        /\ ScalarLeaves(flt_result["OptIn"][1], << >>)
              \cap ScalarLeaves(flt_result["OptOut"][1], << >>) = {}
        /\ MergedByPath(flt_result["OptIn"][1], flt_result["OptOut"][1]) = flt_json

\* C23: for every object without arrays and every path set none of whose
\* paths leads below a scalar of it, the OptIn and the OptOut result share no
\* scalar and merged by path they are the object.
C23_ComplementaryAboveScalars ==
    (/\ BothModesApplied
     /\ flt_json.kind = "object"
     /\ ArrayFree(flt_json)
     /\ ~LeadsBelowScalar(flt_paths, flt_json)) =>
        /\ ScalarLeaves(flt_result["OptIn"][1], << >>)
              \cap ScalarLeaves(flt_result["OptOut"][1], << >>) = {}
        /\ MergedByPath(flt_result["OptIn"][1], flt_result["OptOut"][1]) = flt_json

\* an object of two levels is split by a path of its second level: each
\* result holds a scalar
C23_Witness ==
    /\ BothModesApplied
    /\ ArrayFree(flt_json)
    /\ flt_paths = { JoinKey(KeyA, KeyAB) }
    /\ ScalarLeaves(flt_result["OptIn"][1], << >>) = { << JoinKey(KeyA, KeyAB), 2 >> }
    /\ Cardinality(ScalarLeaves(flt_result["OptOut"][1], << >>)) = 2


\* the paths of the keys and the array elements of a tree
RECURSIVE NodePaths(_, _)
NodePaths(value, path) ==
    CASE value.kind = "object" ->
            UNION { {JoinKey(path, key)} \cup NodePaths(value.fields[key], JoinKey(path, key)) :
                      key \in DOMAIN value.fields }
      [] value.kind = "array" ->
            UNION { {JoinIndex(path, EnumerateIndex(i))}
                      \cup NodePaths(value.items[i], JoinIndex(path, EnumerateIndex(i))) :
                      i \in 1..Len(value.items) }
      [] OTHER -> {}

\* is the node at path lower below the node at path upper
IsBelow(lower, upper) ==
    /\ starts_with(lower, upper)
    /\ Len(lower) > Len(upper)
    /\ lower[Len(upper) + 1] \in {".", "["}

\* the path is in the set, an ancestor of a path in the set, or a descendant
\* of a path in the set
AskedFor(paths, path) ==
    \E asked \in paths : path = asked \/ IsBelow(asked, path) \/ IsBelow(path, asked)

\* C24: every key and every array element of the OptIn result has a path
\* that is in the path set, an ancestor of one in it or a descendant of one
\* in it.
C24_OptInOnlyAskedFor ==
    flt_result["OptIn"] # << >> =>
        \A path \in NodePaths(flt_result["OptIn"][1], << >>) : AskedFor(flt_paths, path)

\* the same for trees without arrays
OptInOnlyAskedForWithoutArrays ==
    (flt_result["OptIn"] # << >> /\ ArrayFree(flt_json)) =>
        \A path \in NodePaths(flt_result["OptIn"][1], << >>) : AskedFor(flt_paths, path)


\* {dns: {upstreams: ["1.1.1.1"]}}, the scalar 1 standing for "1.1.1.1" as in
\* ReferenceConfig
ReferenceResult ==
    JsonObject([section \in {KeyDns} |->
        JsonObject([key \in {KeyUpstreams} |-> JsonArray(<< JsonScalar(1) >>)])])

\* C25: with no paths the OptIn result is the empty object whatever the
\* input; with the paths {dns.upstreams} the OptIn result of
\* {dns: {upstreams: ["1.1.1.1"], hosts: ["x"]}} is
\* {dns: {upstreams: ["1.1.1.1"]}}.
C25_OptInReferenceCases ==
    flt_result["OptIn"] # << >> =>
        /\ flt_paths = {} => flt_result["OptIn"][1] = EmptyObject
        /\ (flt_paths = ReferencePaths /\ flt_json = ReferenceConfig) =>
              flt_result["OptIn"][1] = ReferenceResult

\* the reference configuration was filtered with {dns.upstreams}
C25_Witness ==
    /\ flt_result["OptIn"] # << >>
    /\ flt_paths = ReferencePaths
    /\ flt_json = ReferenceConfig
    /\ KeyHosts \notin DOMAIN flt_result["OptIn"][1].fields[KeyDns].fields

\* an array with elements was filtered with no paths
EmptyPathSetReached ==
    /\ flt_result["OptIn"] # << >>
    /\ flt_paths = {}
    /\ flt_json.kind = "array"
    /\ flt_json.items # << >>


\* the path is in the set or below a path of the set
Excluded(paths, path) == path \in paths \/ \E asked \in paths : IsBelow(path, asked)

\* The tree without its excluded subtrees: a key or an element goes exactly
\* when its path, with the index the element has in the input, is excluded;
\* what stays keeps its value and its order.
RECURSIVE WithoutExcluded(_, _, _)
WithoutExcluded(value, path, paths) ==
    CASE value.kind = "object" ->
            JsonObject([key \in { k \in DOMAIN value.fields :
                                    ~Excluded(paths, JoinKey(path, k)) } |->
                WithoutExcluded(value.fields[key], JoinKey(path, key), paths)])
      [] value.kind = "array" ->
            LET stays == { i \in 1..Len(value.items) :
                             ~Excluded(paths, JoinIndex(path, i - 1)) }
                nth(k) == CHOOSE i \in stays : Cardinality({ j \in stays : j < i }) = k - 1
            IN JsonArray([k \in 1..Cardinality(stays) |->
                  WithoutExcluded(value.items[nth(k)], JoinIndex(path, nth(k) - 1), paths)])
      [] OTHER -> value

\* C26: the OptOut result is the input without the keys and the elements
\* whose path, built with the index in the input array, is in the path set or
\* below a path of the set; everything else is there unchanged and in order.
C26_OptOutRemovesExactly ==
    flt_result["OptOut"] # << >> =>
        flt_result["OptOut"][1] = WithoutExcluded(flt_json, << >>, flt_paths)

\* the first of two different elements of an array was excluded and the
\* second is what is left
C26_Witness ==
    /\ flt_result["OptOut"] # << >>
    /\ JoinIndex(KeyA, 0) \in flt_paths
    /\ flt_json.kind = "object"
    /\ KeyA \in DOMAIN flt_json.fields
    /\ flt_json.fields[KeyA].kind = "array"
    /\ Len(flt_json.fields[KeyA].items) = MaxItems
    /\ flt_json.fields[KeyA].items[1] # flt_json.fields[KeyA].items[MaxItems]
    /\ flt_result["OptOut"][1].kind = "object"
    /\ KeyA \in DOMAIN flt_result["OptOut"][1].fields
    /\ flt_result["OptOut"][1].fields[KeyA].kind = "array"
    /\ flt_result["OptOut"][1].fields[KeyA].items
          = Tail(flt_json.fields[KeyA].items)


\* C27: from a start-up with the initial sync disabled to the first trigger,
\* perform_sync does not run and the only remote calls are, in API-poll
\* mode, one get_config on the main instance that seeds the baseline, the
\* logouts of logout_all on every endpoint, and the polls; the loop starts
\* from the seeded baseline, and a poll starts a callback only for a
\* document whose hash is not that baseline.
C27_SuppressedInitialSync ==
    /\ [](startup = "disabled" =>
             /\ ~cycle_ran
             /\ trigger \in {"none", "seed"}
             /\ trigger = "seed" <=> pc \in {"seed", "logout"}
             /\ visited = {}
             /\ \A s \in Secondaries : uploads[s] = 0)
    /\ [][ startup' = "disabled" =>
             /\ \A i \in 1..Len(calls') :
                   \/ calls'[i].op = "logout"
                   \/ calls'[i].op = "get_config" /\ calls'[i].ep = 0
             /\ pc = "init" =>
                   /\ calls' = << >>
                   /\ pc' = IF trigger_mode = "WatchConfigApi" THEN "seed" ELSE "idle"
             /\ pc = "seed" =>
                   /\ Len(calls') = 1 /\ calls'[1].op = "get_config"
                   /\ pc' = "logout"
                   /\ last_main_config_hash' # {} <=> calls'[1].res = "ok"
             /\ pc = "logout" =>
                   /\ \A i \in 1..Len(calls') : calls'[i].op = "logout"
                   /\ UNCHANGED last_main_config_hash
                   /\ pc' # "logout" =>
                         /\ pc' = "idle"
                         /\ logged_out' = Endpoints
                         /\ poll_baseline' = last_main_config_hash
             /\ pc = "idle" => UNCHANGED << pc, poll_baseline, last_main_config_hash >> ]_vars
    /\ [][ (startup = "disabled" /\ pc = "idle" /\ trigger' = "api") =>
             /\ poll_baseline = last_main_config_hash
             /\ main_config' # {}
             /\ poll_baseline # { hash_config(Get(main_config')) } ]_vars

\* after a start-up without initial sync the baseline is seeded, every
\* endpoint was logged out, and a poll has read the main configuration
\* without starting a callback
C27_Witness ==
    /\ startup = "disabled"
    /\ trigger_mode = "WatchConfigApi"
    /\ pc = "idle"
    /\ poll_baseline # {}
    /\ logged_out = Endpoints
    /\ calls = << Call(0, "get_config", "ok") >>


\* C28: an interval tick, the receipt of a file event and a poll happen only
\* while no callback of the scheduler is running: the one before has
\* returned, and no step of a cycle lies between a trigger and the start of
\* its callback.
C28_NoOverlappingCycles ==
    /\ [][ (IntervalTick \/ FileChange \/ ApiPoll) =>
              (trigger = "none" /\ pc = "idle" /\ result # "running") ]_vars
    /\ [](trigger = "none" <=> pc \in {"init", "idle"})
    /\ [][ (trigger # "none" /\ trigger' # "none") => trigger' = trigger ]_vars

\* an interval tick has started a cycle after an earlier cycle that reached
\* the apply steps had returned
C28_Witness ==
    /\ trigger = "interval"
    /\ visited = {}
    /\ pc \notin {"idle", "init"}
    /\ \E s \in Secondaries, c \in Categories : hist[s][c].outcome # "none"


\* C29: a file callback that found the upgrade running returns at once: it
\* makes no remote call and does not run perform_sync, and the scheduler is
\* back at its channel, where the next thing that happens is the receipt of
\* another file event.
C29_UpgradeSkipsCycle ==
    /\ [](update_running =>
             /\ pc = "idle"
             /\ trigger = "none"
             /\ calls = << >>
             /\ ~cycle_ran
             /\ result = "Ok")
    /\ [][ update_running => FileChange ]_vars
    /\ [][ update_running' =>
              (UNCHANGED << session_token, hist, hash_tracker, last_main_config_hash,
                            teleporterState, visited, uploads, logged_out >>) ]_vars

\* a file event was skipped for a running upgrade after an earlier cycle
C29_Witness ==
    /\ update_running
    /\ trigger_mode = "WatchConfigFile"
    /\ \E s \in Secondaries : uploads[s] > 0


\* the number of times perform_sync has fetched op from main in this cycle
FetchCount(op) == Cardinality({ i \in DOMAIN main_fetches : main_fetches[i] = op })
Fetched(op) == FetchCount(op) > 0
\* does any Selective secondary ask for the category
Wanted(category) ==
    \E s \in Secondaries :
        /\ IsApi(s)
        /\ CASE category = "config" -> secondary_piholes[s].sync_config.enabled
             [] category = "groups" -> secondary_piholes[s].sync_groups
             [] category = "lists" -> secondary_piholes[s].sync_lists

\* C30: in one cycle the configuration, the groups and the lists of main are
\* each fetched at most once and only when some Selective secondary asks for
\* them (groups also when one asks for lists); the configuration is not
\* fetched in a cycle the API poll started; and a cycle in which a secondary
\* asks for lists has fetched the groups before it fetches the lists, and
\* both by the time it comes to the secondaries.
C30_FetchOnceFromMain ==
    /\ \A op \in {"get_config", "get_groups", "get_lists"} : FetchCount(op) <= 1
    /\ Fetched("get_config") => Wanted("config") /\ trigger # "api"
    /\ Fetched("get_groups") => Wanted("groups") \/ Wanted("lists")
    /\ Fetched("get_lists") => Wanted("lists")
    /\ \A j \in DOMAIN main_fetches :
          main_fetches[j] = "get_lists" =>
             \E i \in 1..(j - 1) : main_fetches[i] = "get_groups"
    /\ (Wanted("lists") /\ pc \in {"sec_config", "sec_groups", "sec_lists"}) =>
          Fetched("get_groups") /\ Fetched("get_lists")

\* a cycle whose only Selective secondary asks for lists and not for groups
\* fetched the groups and then the lists
C30_Witness ==
    /\ pc = "sec_lists"
    /\ ~Wanted("groups")
    /\ main_fetches = << "get_groups", "get_lists" >>


\* the (host, port) identity of secondary s: the port is its position
Identity(s) == << secondary_piholes[s].host, s >>

\* C31: two secondaries of distinct (host, port) identities never share a
\* tracker key, and the apply step of one secondary never changes the record
\* that has_changed reads for another one.
C31_OneKeyPerTarget ==
    /\ [](\A s, t \in Secondaries : \A c \in Categories :
             Identity(s) # Identity(t) => HashKey(c, s) # HashKey(c, t))
    /\ [][ (pc \in ApplyPcs) =>
             (\A t \in Secondaries :
                 Identity(t) # Identity(idx) =>
                    hash_tracker'[HashKey(CategoryAt(pc), t)]
                       = hash_tracker[HashKey(CategoryAt(pc), t)]) ]_vars


\* the create and update calls of list reconciliation among the calls cs
ListWrites(cs) == { i \in DOMAIN cs : cs[i].op \in {"add_list", "update_list"} }
GravityCalls(cs) == { i \in DOMAIN cs : cs[i].op = "trigger_gravity_update" }
\* the cache rebuild was issued to the Selective secondary s earlier in this
\* cycle: its config step applied the PATCH and its policy asks for the rebuild
GravityIssuedBefore(s) ==
    /\ << s, "config" >> \in visited
    /\ hist[s]["config"].outcome = "ok"
    /\ secondary_piholes[s].update_gravity

\* C32: for a Selective secondary whose policy asks for it, the cache rebuild
\* is issued in a cycle exactly when the list reconciliation of that cycle
\* issued a create or update to it; a secondary whose lists are not
\* reconciled gets no rebuild.
C32_GravityAfterListWrites ==
    /\ [][ (pc = "sec_lists" /\ secondary_piholes[idx].update_gravity) =>
             ((ListWrites(calls') # {}) <=>
                 (GravityCalls(calls') # {} \/ GravityIssuedBefore(idx))) ]_vars
    /\ [][ (pc \in ApplyPcs /\ GravityCalls(calls') # {}) =>
             secondary_piholes[idx].sync_lists ]_vars


\* secondary.add_group(..).await?; sleep(API_WRITE_THROTTLE).await: the sleep
\* follows a write that returned Ok, `?` returns before it otherwise
WriteThrottle(ok) == IF ok THEN << "sleep" >> ELSE << >>

\* The write calls and throttle sleeps of one pass of sync_groups or
\* sync_lists that issued the writes calls, the last of which failed if failed.
RECURSIVE PassEvents(_, _, _)
PassEvents(issued, failed, k) ==
    IF k = 0 THEN << >>
    ELSE PassEvents(issued, failed, k - 1) \o << "write" >> \o
         WriteThrottle(~(failed /\ k = Len(issued)))

\* the group step and the list step of the last pass over the secondary
ReconcileEvents ==
    PassEvents(rec_group_calls, "groups" \in rec_failed, Len(rec_group_calls)) \o
    PassEvents(rec_list_calls, "lists" \in rec_failed, Len(rec_list_calls))

\* C33: between any two successive create/update calls that the group and
\* list reconciliation of one pass issue to the secondary, the throttle delay
\* elapses.
C33_WriteThrottle ==
    \A i, j \in DOMAIN ReconcileEvents :
        (i < j /\ ReconcileEvents[i] = "write" /\ ReconcileEvents[j] = "write") =>
            \E k \in (i + 1)..(j - 1) : ReconcileEvents[k] = "sleep"


\* the attempts over which the backoff is tabulated
MaxAttempts == 20
\* the width of the u64 in which the backoff is computed
U64Bits == 64
RECURSIVE BitLen(_)
BitLen(n) == IF n = 0 THEN 0 ELSE 1 + BitLen(n \div 2)
\* 2u64.pow(e) * 50 stays inside the u64: 2^e has e + 1 bits, and a product
\* has at most as many bits as its factors together
FitsU64(e) == (e + 1) + BitLen(BackoffBaseMs) <= U64Bits
\* min(2^k * 50 ms, 1000 ms)
CappedDelay(k) == Min(Pow2(k) * 50, 1000)

C35_NoLostApiChange ==
    [][ (trigger = "api" /\ poll_baseline' # poll_baseline) => cycle_ran' ]_vars


(***************************************************************************)
(* Cycle after cycle over one secondary with main's data unchanged: the    *)
(* group and list steps of sync_config_api behind their has_changed gates, *)
(* src/sync/config_sync.rs:213-351.                                        *)
(***************************************************************************)
\* has_changed for the record of a category: main's data, and so its hash,
\* never changes here, so the record is either that hash or absent or older
RecordChanged(category) == category \notin rec_recorded

\* the secondary before the first cycle has none of main's groups but Default
ConvergeSecondaryGroupChoices ==
    { groups \in RecSecondaryGroupChoices :
         \A i \in 1..Len(groups) : groups[i].name \in {"Default", "Guests"} }

ConvergeInit ==
    /\ Configured(SelectiveConfig)
    /\ AtRest
    /\ TriggersAtRest
    /\ FilterAtRest
    /\ rec_pc = "idle"
    /\ rec_sync_groups \in BOOLEAN
    /\ rec_main_groups \in RecMainGroupChoices
    /\ rec_main_lists \in RecMainListChoices
    /\ rec_sec_groups \in ConvergeSecondaryGroupChoices
    /\ rec_sec_lists \in RecSecondaryListChoices
    /\ rec_group_calls = << >>
    /\ rec_list_calls = << >>
    /\ rec_failed = {}
    /\ rec_since = "start"
    /\ rec_toggled = {}
    /\ rec_recorded = {}

\* the next cycle reaches the secondary
ConvergeBegin ==
    /\ rec_pc = "idle"
    /\ rec_pc' = IF rec_sync_groups THEN "groups" ELSE "lists"
    /\ rec_group_calls' = << >>
    /\ rec_list_calls' = << >>
    /\ rec_failed' = {}
    /\ UNCHANGED << rec_sync_groups, rec_main_groups, rec_main_lists, rec_sec_groups,
                    rec_sec_lists, rec_since, rec_toggled, rec_recorded, restOfReconcile >>

\* the group step in which the first n writes succeed
ConvergeGroupsStep(n) ==
    /\ rec_pc = "groups"
    /\ rec_group_calls' = Issued(sync_groups(rec_main_groups, rec_sec_groups), n)
    /\ rec_sec_groups' = ApplyGroupWrites(rec_sec_groups,
                                          sync_groups(rec_main_groups, rec_sec_groups),
                                          n, rec_main_groups)
    /\ IF n = Len(sync_groups(rec_main_groups, rec_sec_groups))
       THEN rec_recorded' = rec_recorded \cup {"groups"} /\ rec_failed' = {}
       ELSE rec_recorded' = rec_recorded /\ rec_failed' = {"groups"}
    /\ rec_pc' = "lists"
    /\ UNCHANGED << rec_sync_groups, rec_main_groups, rec_main_lists, rec_sec_lists,
                    rec_list_calls, rec_since, rec_toggled, restOfReconcile >>

\* the group step is skipped (unchanged since the last run) or reconciles
\* every group
ConvergeGroupsOk ==
    IF RecordChanged("groups")
    THEN ConvergeGroupsStep(Len(sync_groups(rec_main_groups, rec_sec_groups)))
    ELSE /\ rec_pc = "groups"
         /\ rec_pc' = "lists"
         /\ UNCHANGED << rec_sync_groups, rec_main_groups, rec_main_lists, rec_sec_groups,
                         rec_sec_lists, rec_group_calls, rec_list_calls, rec_failed,
                         rec_since, rec_toggled, rec_recorded, restOfReconcile >>

\* a write of the group step fails
ConvergeGroupsFailed ==
    /\ RecordChanged("groups")
    /\ \E n \in 0..(Len(sync_groups(rec_main_groups, rec_sec_groups)) - 1) :
          ConvergeGroupsStep(n)

\* the list step in which the first n writes succeed
ConvergeListsStep(n) ==
    LET plan == sync_lists(rec_main_lists, build_group_lookup(rec_main_groups),
                           rec_sec_groups, rec_sec_lists, rec_sync_groups)
    IN /\ rec_pc = "lists"
       /\ rec_list_calls' = Issued(plan, n)
       /\ rec_sec_lists' = ApplyListWrites(rec_sec_lists, plan, n)
       /\ IF n = Len(plan)
          THEN rec_recorded' = rec_recorded \cup {"lists"} /\ rec_failed' = rec_failed
          ELSE rec_recorded' = rec_recorded /\ rec_failed' = rec_failed \cup {"lists"}
       /\ rec_pc' = "idle"
       /\ UNCHANGED << rec_sync_groups, rec_main_groups, rec_main_lists, rec_sec_groups,
                       rec_group_calls, rec_since, rec_toggled, restOfReconcile >>

\* the list step is skipped (unchanged since the last run) or reconciles
\* every list
ConvergeListsOk ==
    IF RecordChanged("lists")
    THEN ConvergeListsStep(Len(sync_lists(rec_main_lists,
                                          build_group_lookup(rec_main_groups),
                                          rec_sec_groups, rec_sec_lists, rec_sync_groups)))
    ELSE /\ rec_pc = "lists"
         /\ rec_pc' = "idle"
         /\ UNCHANGED << rec_sync_groups, rec_main_groups, rec_main_lists, rec_sec_groups,
                         rec_sec_lists, rec_group_calls, rec_list_calls, rec_failed,
                         rec_since, rec_toggled, rec_recorded, restOfReconcile >>

\* a write of the list step fails
ConvergeListsFailed ==
    /\ RecordChanged("lists")
    /\ \E n \in 0..(Len(sync_lists(rec_main_lists, build_group_lookup(rec_main_groups),
                                   rec_sec_groups, rec_sec_lists, rec_sync_groups)) - 1) :
          ConvergeListsStep(n)

\* Between two cycles, after the lists were reconciled, somebody creates on the
\* secondary a group of main that it lacks.
GroupCreatedOnSecondary ==
    /\ rec_pc = "idle"
    /\ "lists" \in rec_recorded
    /\ \E i \in 1..Len(rec_main_groups) :
          /\ ~HasKey(Names(rec_sec_groups), rec_main_groups[i].name)
          /\ rec_sec_groups' =
                Append(rec_sec_groups,
                       Group(rec_main_groups[i].name, rec_main_groups[i].comment,
                             rec_main_groups[i].enabled, FreshId(rec_sec_groups)))
    /\ UNCHANGED << rec_pc, rec_sync_groups, rec_main_groups, rec_main_lists,
                    rec_sec_lists, rec_group_calls, rec_list_calls, rec_failed,
                    rec_since, rec_toggled, rec_recorded, restOfReconcile >>

ConvergeNext ==
    \/ ConvergeBegin
    \/ ConvergeGroupsOk
    \/ ConvergeGroupsFailed
    \/ ConvergeListsOk
    \/ ConvergeListsFailed
    \/ GroupCreatedOnSecondary

\* The scheduler keeps starting cycles and every step of a cycle returns; the
\* secondary does not refuse writes for ever. The last conjunct is the strong
\* fairness of ConvergeListsOk written out: the step is enabled exactly when
\* rec_pc = "lists".
SpecConverge ==
    /\ ConvergeInit
    /\ [][ConvergeNext]_vars
    /\ WF_vars(ConvergeBegin)
    /\ SF_vars(ConvergeGroupsOk)
    /\ ([]<>(rec_pc = "lists") => []<><<ConvergeListsOk>>_vars)

\* the names of the groups the main list is in
GroupNamesOf(list) ==
    { GroupNameOf(build_group_lookup(rec_main_groups), RawGroups(list)[i]) :
         i \in 1..Len(RawGroups(list)) }
\* the secondary holds the main list and it is in the secondary's group name
RefersTo(list, name) ==
    /\ name \in DOMAIN SecondaryGroupLookup(rec_sec_groups)
    /\ HasKey(ListKeys(rec_sec_lists), ListKey(list))
    /\ \E i \in 1..Len(rec_sec_lists[LastIdx(ListKeys(rec_sec_lists), ListKey(list))].groups) :
          rec_sec_lists[LastIdx(ListKeys(rec_sec_lists), ListKey(list))].groups[i]
             = SecondaryGroupLookup(rec_sec_groups)[name]
\* The lists were reconciled and their hash recorded while the secondary
\* lacked the group name of a main list, and the secondary has the group now.
MembershipStale(name) ==
    /\ rec_pc = "idle"
    /\ "lists" \in rec_recorded
    /\ name \in DOMAIN SecondaryGroupLookup(rec_sec_groups)
    /\ \E i \in 1..Len(rec_main_lists) :
          name \in GroupNamesOf(rec_main_lists[i]) /\ ~RefersTo(rec_main_lists[i], name)
MembershipSettled(name) ==
    \A i \in 1..Len(rec_main_lists) :
        name \in GroupNamesOf(rec_main_lists[i]) => RefersTo(rec_main_lists[i], name)

\* C36: when a list was reconciled while its group was missing on the
\* secondary and the group exists there later, some later cycle updates the
\* list on the secondary to the secondary's id of that group.
C36_ListMembershipConverges ==
    \A name \in {"Family", "Kids"} :
        MembershipStale(name) ~> MembershipSettled(name)


\* The file-watch loop as tokio runs it: a receive with an event queued, the
\* end of the debounce sleep and the awaited callback all complete.
SpecTriggersFair ==
    /\ TriggersInit
    /\ [][TriggersNext]_vars
    /\ WF_vars(FileRecv)
    /\ WF_vars(FileDebounce)
    /\ WF_vars(FileOnChange)

\* an event for the watched file: one of its paths is the literal or the
\* canonical target path
Matching(event) ==
    event.ok /\ event.paths \cap {"target_path", "canonical_target"} # {}
\* rx holds an event for the watched file
MatchingQueued(rx) == \E i \in 1..Len(rx) : Matching(rx[i])
IsPrefix(s, t) == Len(s) <= Len(t) /\ SubSeq(t, 1, Len(s)) = s

\* C37: an event for the watched file that arrives after the drain, while the
\* callback runs, stays in the channel until the callback has returned; then
\* it is received and starts a debounce, which ends in one further invocation
\* of the callback. Only a callback that failed, which ends the loop, prevents
\* this.
C37_NoLostFileEvent ==
    /\ [][ (trig_fn = "file" /\ trig_pc = "on_change") => IsPrefix(fw_rx, fw_rx') ]_vars
    /\ (trig_fn = "file" /\ trig_pc = "on_change" /\ MatchingQueued(fw_rx))
          ~> (trig_pc = "debounce" \/ trig_result = "Err")
    /\ (trig_fn = "file" /\ trig_pc = "debounce") ~> (trig_pc = "on_change")
    /\ []((trig_fn = "file" /\ trig_pc = "returned") => trig_result = "Err")

\* after an invocation of the callback, whose drain had emptied the channel, a
\* later event for the watched file was received and its debounce runs
C37_Witness ==
    /\ trig_fn = "file"
    /\ trig_pc = "debounce"
    /\ fw_served >= 1


\* C38: when the callback of a file-watch or API-poll trigger returns, a
\* client still holds a session token only if the callback invoked logout on
\* it (and the remote refused that logout): no token survives a callback that
\* ended without the teardown.
C38_NoSessionSurvivesCallback ==
    [][ (trigger \in {"file", "api"} /\ trigger' = "none") =>
          (\A e \in Endpoints :
              session_token'[e] => (cycle_ran' /\ e \in logged_out')) ]_vars


(***************************************************************************)
(* The cache rebuild of the snapshot round: src/sync/teleporter.rs:14-24.  *)
(***************************************************************************)
\* The step just taken uploaded the archive and the gravity update that
\* followed was refused.
GravityFailedAfterUpload ==
    /\ Len(calls) = 2
    /\ calls[1].op = "upload_backup" /\ calls[1].res = "ok"
    /\ calls[2].op = "trigger_gravity_update" /\ calls[2].res # "ok"

\* C39: a gravity update that fails after a successful upload makes that
\* upload a failed one: the secondary is among the failed uploads, the round
\* ends with the snapshot recorded as not applied, and the next round that
\* downloads a snapshot after a round recorded as not applied uploads it to
\* every Snapshot-mode secondary, whatever its hash.
C39_FailedGravityIsFailedUpload ==
    /\ [][ GravityFailedAfterUpload' =>
              /\ calls'[1].ep \in upload_failed'
              /\ ~all_ok' ]_vars
    /\ [][ (pc = "upload" /\ pc' # "upload") =>
              last_teleporter_applied' = (upload_failed' = {}) ]_vars
    /\ [][ (pc = "download" /\ calls'[1].res = "ok" /\ ~last_teleporter_applied) =>
              /\ should_upload'
              /\ FirstUpload # 0 => (pc' = "upload" /\ idx' = FirstUpload) ]_vars
    /\ [][ (pc = "upload" /\ pc' = "upload") =>
              (idx' = NextUpload(idx, FALSE) /\ idx' = NextUpload(idx, TRUE)) ]_vars
    /\ []((SnapshotRoundDone /\ prev_snapshot.failed) =>
              \A s \in Secondaries : IsTeleporter(s) => uploads[s] = 1)

\* A round that uploads the unchanged snapshot again after a failed round:
\* the upload to the first secondary was accepted, its gravity update failed,
\* and the upload is counted as failed while the round goes on.
C39_Witness ==
    /\ GravityFailedAfterUpload
    /\ pc = "upload" /\ idx = 2
    /\ upload_failed = {1}
    /\ ~all_ok
    /\ prev_snapshot.failed
    /\ prev_snapshot.hash = backup_hash


(***************************************************************************)
(* A failed write during reconciliation: src/sync/groups.rs:39-56,         *)
(* src/sync/lists.rs:133-160.                                              *)
(***************************************************************************)
GroupsNamed(groups, name) ==
    { groups[i] : i \in { j \in 1..Len(groups) : groups[j].name = name } }
ListsKeyed(lists, key) ==
    { lists[i] : i \in { j \in 1..Len(lists) : ListKey(lists[j]) = key } }

\* the secondary has the group as main has it
GroupWritten(secondary_groups, name) ==
    \E g \in GroupsNamed(secondary_groups, name), m \in GroupsNamed(rec_main_groups, name) :
        g.comment = m.comment /\ g.enabled = m.enabled

\* the secondary has the list as the write sent it
ListWritten(secondary_lists, w) ==
    \E l \in ListsKeyed(secondary_lists, w.target) :
        l.comment = w.list.comment /\ l.enabled = w.list.enabled /\ l.groups = w.list.groups

\* C40: when a write of the group step (of the list step) fails, it is the
\* last call of that step: the calls issued are the plan up to the failed
\* one, the entries after it are on the secondary as they were before the
\* step, the entries before it are on the secondary as written, and the rest
\* of the cycle issues no further group call and leaves the groups alone.
C40_StopsAtFirstFailedWrite ==
    /\ [][ (rec_pc = "groups" /\ "groups" \in rec_failed') =>
              LET plan == sync_groups(rec_main_groups, rec_sec_groups)
                  k == Len(rec_group_calls')
              IN /\ k >= 1
                 /\ rec_group_calls' = SubSeq(plan, 1, k)
                 /\ \A j \in (k + 1)..Len(plan) :
                       GroupsNamed(rec_sec_groups', plan[j].target) =
                          GroupsNamed(rec_sec_groups, plan[j].target)
                 /\ \A j \in 1..(k - 1) : GroupWritten(rec_sec_groups', plan[j].target) ]_vars
    /\ [][ (rec_pc = "lists") =>
              /\ rec_group_calls' = rec_group_calls
              /\ rec_sec_groups' = rec_sec_groups
              /\ "lists" \in rec_failed' =>
                    LET plan == sync_lists(rec_main_lists, build_group_lookup(rec_main_groups),
                                           rec_sec_groups, rec_sec_lists, rec_sync_groups)
                        k == Len(rec_list_calls')
                    IN /\ k >= 1
                       /\ rec_list_calls' = SubSeq(plan, 1, k)
                       /\ \A j \in (k + 1)..Len(plan) :
                             ListsKeyed(rec_sec_lists', plan[j].target) =
                                ListsKeyed(rec_sec_lists, plan[j].target)
                       /\ \A j \in 1..(k - 1) : ListWritten(rec_sec_lists', plan[j]) ]_vars

\* A pass in which the first group write failed with Kids still to be
\* created, and the second list write failed after a.example was written.
C40_Witness ==
    /\ rec_pc = "idle"
    /\ rec_failed = {"groups", "lists"}
    /\ Len(rec_group_calls) = 1 /\ rec_group_calls[1].target = "Family"
    /\ GroupsNamed(rec_main_groups, "Kids") # {}
    /\ GroupsNamed(rec_sec_groups, "Kids") = {}
    /\ Len(rec_list_calls) = 2
    /\ ListWritten(rec_sec_lists, rec_list_calls[1])
    /\ ListsKeyed(rec_sec_lists, rec_list_calls[2].target) = {}

====
